---- MODULE Spec2Model ----
(***************************************************************************)
(* Row-level authorization rules of CovenantSQL (package resolver):        *)
(* CompileRawRules turns a rules configuration into a Rules object, and    *)
(* EnforceRulesOnFilter / EnforceRulesOnUpdate / EnforceRulesOnInsert      *)
(* rewrite a caller's query with the rule fragments selected for a         *)
(* principal.                                                              *)
(*                                                                         *)
(* Go values are modelled as follows.                                      *)
(*  - A string is a sequence of one-character strings, so that prefix      *)
(*    tests, slicing and lower-casing are computed as the code computes    *)
(*    them.                                                                *)
(*  - An interface{} / map[string]interface{} value is a record            *)
(*    [t, s, o, l]: t = "nil" (nil map, JSON null), "str" (string s),      *)
(*    "obj" (map o from keys to values) or "arr" (list l).                 *)
(*  - A slice is [isNil, elems]; an error is [msg, arg], msg = "" for nil. *)
(*  - The iteration order of a Go map is not defined: every loop over a    *)
(*    map is modelled over every order of its keys, and an operation       *)
(*    whose result can depend on that order yields the set of its          *)
(*    possible outcomes.                                                   *)
(***************************************************************************)
EXTENDS Integers, Sequences, FiniteSets, TLC

\* the rule engine: the configuration, what CompileRawRules returned for it
\* (rules, rulesNil: the pointer is nil, compileErr), where the run stands,
\* the enforcement call and what it returned, the owners of the maps the
\* call wrote to, and a second compilation of the same configuration with
\* the same call made on it
VARIABLES cfg, rules, rulesNil, compileErr, pc, call, ret, written, twin

\* the arguments of a call of mergeUpdate made on its own
VARIABLES margs

\* the RulesManager and the goroutines that call it
VARIABLES mgr

\* the SessionPool and the goroutines that call it
VARIABLES pool

\* the ETLS handshake on one connection: the two ends and the bytes between
VARIABLES hs

ruleVars == <<cfg, rules, rulesNil, compileErr, pc, call, ret, written, twin>>

vars == <<cfg, rules, rulesNil, compileErr, pc, call, ret, written, twin, margs, mgr, pool, hs>>

----------------------------------------------------------------------------
(* Strings *)

HasPrefix(s, prefix) == Len(s) >= Len(prefix) /\ SubSeq(s, 1, Len(prefix)) = prefix

\* s[n:] of Go, n counted from 0
SliceFrom(s, n) == SubSeq(s, n + 1, Len(s))

LowerChar(c) ==
    CASE c = "A" -> "a" [] c = "B" -> "b" [] c = "C" -> "c" [] c = "D" -> "d"
      [] c = "E" -> "e" [] c = "F" -> "f" [] c = "G" -> "g" [] c = "H" -> "h"
      [] c = "I" -> "i" [] c = "J" -> "j" [] c = "K" -> "k" [] c = "L" -> "l"
      [] c = "M" -> "m" [] c = "N" -> "n" [] c = "O" -> "o" [] c = "P" -> "p"
      [] c = "Q" -> "q" [] c = "R" -> "r" [] c = "S" -> "s" [] c = "T" -> "t"
      [] c = "U" -> "u" [] c = "V" -> "v" [] c = "W" -> "w" [] c = "X" -> "x"
      [] c = "Y" -> "y" [] c = "Z" -> "z" [] OTHER -> c

ToLower(s) == [i \in 1..Len(s) |-> LowerChar(s[i])]

\* every order in which the elements of a finite set can be visited
RECURSIVE Perms(_)
Perms(S) ==
    IF S = {} THEN {<<>>}
    ELSE UNION {{<<x>> \o p : p \in Perms(S \ {x})} : x \in S}

----------------------------------------------------------------------------
(* Values *)

EmptyMap == <<>>

Nil == [t |-> "nil", s |-> <<>>, o |-> EmptyMap, l |-> <<>>]

Str(x) == [t |-> "str", s |-> x, o |-> EmptyMap, l |-> <<>>]

Obj(m) == [t |-> "obj", s |-> <<>>, o |-> m, l |-> <<>>]

Arr(q) == [t |-> "arr", s |-> <<>>, o |-> EmptyMap, l |-> q]

\* m[k] = v on a Go map
MapSet(m, k, v) == [x \in (DOMAIN m) \cup {k} |-> IF x = k THEN v ELSE m[x]]

\* v, ok = m[k]: the zero value when the key is missing
MapGet(m, k) == IF k \in DOMAIN m THEN m[k] ELSE Nil

NilSlice == [isNil |-> TRUE, elems |-> <<>>]

SliceAppend(sl, x) == [isNil |-> FALSE, elems |-> Append(sl.elems, x)]

NoErr == [msg |-> "", arg |-> <<>>]

Err(m, a) == [msg |-> m, arg |-> a]

----------------------------------------------------------------------------
(* Program constants *)

RuleQueryInsert == 0

RuleQueryUpdate == 1

RuleQueryFind == 2

RuleQueryRemove == 3

RuleQueryCount == 4

UserStateAnonymous == <<"a","n","o","n","y","m","o","u","s">>

UserStateLoggedIn == <<"l","o","g","g","e","d","_","i","n">>

UserStateWaitSignUpConfirm == <<"s","i","g","n","_","u","p">>

UserStatePreRegistered == <<"p","r","e","_","r","e","g","i","s","t","e","r">>

UserStateDisabled == <<"d","i","s","a","b","l","e","d">>

UserStates ==
    {UserStateAnonymous, UserStateLoggedIn, UserStateWaitSignUpConfirm,
     UserStatePreRegistered, UserStateDisabled}

kDollar == <<"$">>

kSet == <<"$","s","e","t">>

kInc == <<"$","i","n","c">>

kMax == <<"$","m","a","x">>

kMin == <<"$","m","i","n">>

kMul == <<"$","m","u","l">>

kCurrentDate == <<"$","c","u","r","r","e","n","t","D","a","t","e">>

kComment == <<"$","c","o","m","m","e","n","t">>

kAnd == <<"$","a","n","d">>

kDefault == <<"d","e","f","a","u","l","t">>

pfxGroup == <<"g",":">>

pfxUser == <<"u",":">>

pfxState == <<"s",":">>

----------------------------------------------------------------------------
(* mergeUpdate *)

\* mergeUpdateKey that keeps the entry a field already has
mergeUpdateKey_keepFirst(st, k, v) ==
    LET dollar == HasPrefix(k, kDollar)
        clash == IF dollar THEN st.useNormalSet ELSE st.useDollarOp
        st1 == [st EXCEPT !.useDollarOp = st.useDollarOp \/ dollar,
                          !.useNormalSet = st.useNormalSet \/ ~dollar]
    IN  IF clash
        THEN [st EXCEPT !.err = Err("could not use both normal field update and $ prefixed ops", <<>>)]
        ELSE IF st1.useDollarOp
        THEN IF k \in {kCurrentDate, kInc, kMax, kMin, kMul, kSet}
             THEN IF v.t # "obj"
                  THEN [st1 EXCEPT !.err = Err("$ operator needs object argument", <<>>)]
                  ELSE [st1 EXCEPT !.result =
                           [f \in (DOMAIN st.result) \cup (DOMAIN v.o) |->
                               IF f \in DOMAIN st.result
                               THEN st.result[f]
                               ELSE [op |-> k, argument |-> v.o[f]]]]
             ELSE IF k = kComment
             THEN st1
             ELSE [st1 EXCEPT !.err = Err("invalid operator", k)]
        ELSE IF k \in DOMAIN st.result THEN st1
        ELSE [st1 EXCEPT !.result = MapSet(st.result, k, [op |-> kSet, argument |-> v])]

\* mergeUpdateKey that takes an operator whose value is no object as if
\* it had no fields
mergeUpdateKey_anyShape(st, k, v) ==
    LET dollar == HasPrefix(k, kDollar)
        clash == IF dollar THEN st.useNormalSet ELSE st.useDollarOp
        st1 == [st EXCEPT !.useDollarOp = st.useDollarOp \/ dollar,
                          !.useNormalSet = st.useNormalSet \/ ~dollar]
    IN  IF clash
        THEN [st EXCEPT !.err = Err("could not use both normal field update and $ prefixed ops", <<>>)]
        ELSE IF st1.useDollarOp
        THEN IF k \in {kCurrentDate, kInc, kMax, kMin, kMul, kSet}
             THEN [st1 EXCEPT !.result =
                      [f \in (DOMAIN st.result) \cup (DOMAIN v.o) |->
                          IF f \in DOMAIN v.o
                          THEN [op |-> k, argument |-> v.o[f]]
                          ELSE st.result[f]]]
             ELSE IF k = kComment
             THEN st1
             ELSE [st1 EXCEPT !.err = Err("invalid operator", k)]
        ELSE [st1 EXCEPT !.result = MapSet(st.result, k, [op |-> kSet, argument |-> v])]

\* one visit of the inner loop "for k, v := range d" (lines 471-517);
\* st = [result, useDollarOp, useNormalSet, err]
mergeUpdateKey(st, k, v) ==
    LET dollar == HasPrefix(k, kDollar)
        clash == IF dollar THEN st.useNormalSet ELSE st.useDollarOp
        st1 == [st EXCEPT !.useDollarOp = st.useDollarOp \/ dollar,
                          !.useNormalSet = st.useNormalSet \/ ~dollar]
    IN  IF clash
        THEN [st EXCEPT !.err = Err("could not use both normal field update and $ prefixed ops", <<>>)]
        ELSE IF st1.useDollarOp
        THEN IF k \in {kCurrentDate, kInc, kMax, kMin, kMul, kSet}
             THEN IF v.t # "obj"
                  THEN [st1 EXCEPT !.err = Err("$ operator needs object argument", <<>>)]
                  ELSE [st1 EXCEPT !.result =
                           [f \in (DOMAIN st.result) \cup (DOMAIN v.o) |->
                               IF f \in DOMAIN v.o
                               THEN [op |-> k, argument |-> v.o[f]]
                               ELSE st.result[f]]]
             ELSE IF k = kComment
             THEN st1
             ELSE [st1 EXCEPT !.err = Err("invalid operator", k)]
        ELSE [st1 EXCEPT !.result = MapSet(st.result, k, [op |-> kSet, argument |-> v])]

\* the inner loop over the keys of d in the order ord, stopping at an error
RECURSIVE mergeUpdateDoc(_, _, _, _)
mergeUpdateDoc(st, d, ord, i) ==
    IF i > Len(ord) \/ st.err # NoErr THEN st
    ELSE mergeUpdateDoc(mergeUpdateKey(st, ord[i], d.o[ord[i]]), d, ord, i + 1)

\* the outer loop "for _, d := range q" (line 466): the flags start afresh
\* for every document
RECURSIVE mergeUpdateLoop(_, _, _, _)
mergeUpdateLoop(result, q, ords, i) ==
    IF i > Len(q) THEN [result |-> result, err |-> NoErr]
    ELSE LET st == mergeUpdateDoc([result |-> result, useDollarOp |-> FALSE,
                                   useNormalSet |-> FALSE, err |-> NoErr],
                                  q[i], ords[i], 1)
         IN  IF st.err # NoErr THEN [result |-> st.result, err |-> st.err]
             ELSE mergeUpdateLoop(st.result, q, ords, i + 1)

\* "convert result to query object" (lines 520-534)
mergeUpdateAssemble(result) ==
    Obj([op \in {result[f].op : f \in DOMAIN result} |->
            Obj([f \in {g \in DOMAIN result : result[g].op = op} |-> result[f].argument])])

\* mergeUpdate(q...) when the keys of q[i] are visited in the order ords[i]
mergeUpdate(q, ords) ==
    IF Len(q) = 0 THEN [o |-> Nil, err |-> NoErr]
    ELSE LET m == mergeUpdateLoop(EmptyMap, q, ords, 1)
         IN  IF m.err # NoErr THEN [o |-> Nil, err |-> m.err]
             ELSE [o |-> mergeUpdateAssemble(m.result), err |-> NoErr]

\* the orders in which the keys of each document of q can be visited
RECURSIVE KeyOrders(_)
KeyOrders(q) ==
    IF q = <<>> THEN {<<>>}
    ELSE {<<p>> \o rest : p \in Perms(DOMAIN Head(q).o), rest \in KeyOrders(Tail(q))}

\* what mergeUpdate(q...) can return
mergeUpdateOutcomes(q) == {mergeUpdate(q, ords) : ords \in KeyOrders(q)}

----------------------------------------------------------------------------
(* mergeInsert *)

\* mergeInsertLoop with "o[k] = v" done only for a key o does not have yet
RECURSIVE mergeInsertLoop_keepFirst(_, _, _)
mergeInsertLoop_keepFirst(o, q, i) ==
    IF i > Len(q) THEN o
    ELSE mergeInsertLoop_keepFirst([k \in (DOMAIN o) \cup (DOMAIN q[i].o) |->
                                       IF k \in DOMAIN o THEN o[k] ELSE q[i].o[k]],
                                   q, i + 1)

RECURSIVE mergeInsertLoop(_, _, _)
mergeInsertLoop(o, q, i) ==
    IF i > Len(q) THEN o
    ELSE mergeInsertLoop([k \in (DOMAIN o) \cup (DOMAIN q[i].o) |->
                             IF k \in DOMAIN q[i].o THEN q[i].o[k] ELSE o[k]],
                         q, i + 1)

mergeInsert(q) == IF Len(q) = 0 THEN Nil ELSE Obj(mergeInsertLoop(EmptyMap, q, 1))

----------------------------------------------------------------------------
(* The Rules object and its compilation *)

\* a nil *QueryRules
NilQueryRules ==
    [isNil |-> TRUE, groupRules |-> EmptyMap, userRules |-> EmptyMap,
     userStateRules |-> EmptyMap, defaultRules |-> Nil]

\* lines 203-208: every map is made, defaultRules too
NewQueryRules ==
    [isNil |-> FALSE, groupRules |-> EmptyMap, userRules |-> EmptyMap,
     userStateRules |-> EmptyMap, defaultRules |-> Obj(EmptyMap)]

\* compileSubject without the test that the group is one of cfg.Groups
compileSubject_anyGroup(c, st, enforceSubject, enforceObject) ==
    IF HasPrefix(enforceSubject, pfxGroup) /\ SliceFrom(enforceSubject, 2) # <<>>
    THEN [st EXCEPT !.queryRules.groupRules = MapSet(@, SliceFrom(enforceSubject, 2), enforceObject)]
    ELSE IF HasPrefix(enforceSubject, pfxGroup)
    THEN [st EXCEPT !.err = Err("invalid empty group name", <<>>)]
    ELSE IF HasPrefix(enforceSubject, pfxUser)
    THEN IF SliceFrom(enforceSubject, 2) = <<>>
         THEN [st EXCEPT !.err = Err("invalid empty user name", <<>>)]
         ELSE [st EXCEPT !.queryRules.userRules = MapSet(@, SliceFrom(enforceSubject, 2), enforceObject)]
    ELSE IF HasPrefix(enforceSubject, pfxState)
    THEN IF ToLower(SliceFrom(enforceSubject, 2)) \notin UserStates
         THEN [st EXCEPT !.err = Err("invalid user state", ToLower(SliceFrom(enforceSubject, 2)))]
         ELSE [st EXCEPT !.queryRules.userStateRules =
                            MapSet(@, ToLower(SliceFrom(enforceSubject, 2)), enforceObject)]
    ELSE IF enforceSubject = kDefault
    THEN [st EXCEPT !.queryRules.defaultRules = enforceObject]
    ELSE [st EXCEPT !.err = Err("invalid enforce type", enforceSubject)]

\* one visit of "for enforceSubject, enforceObject := range enforces";
\* st = [queryRules, err]
compileSubject(c, st, enforceSubject, enforceObject) ==
    IF HasPrefix(enforceSubject, pfxGroup)
    THEN LET groupName == SliceFrom(enforceSubject, 2)
         IN  IF groupName = <<>>
             THEN [st EXCEPT !.err = Err("invalid empty group name", <<>>)]
             ELSE IF groupName \notin DOMAIN c.Groups
             THEN [st EXCEPT !.err = Err("unknown group", groupName)]
             ELSE [st EXCEPT !.queryRules.groupRules = MapSet(@, groupName, enforceObject)]
    ELSE IF HasPrefix(enforceSubject, pfxUser)
    THEN LET userName == SliceFrom(enforceSubject, 2)
         IN  IF userName = <<>>
             THEN [st EXCEPT !.err = Err("invalid empty user name", <<>>)]
             ELSE [st EXCEPT !.queryRules.userRules = MapSet(@, userName, enforceObject)]
    ELSE IF HasPrefix(enforceSubject, pfxState)
    THEN LET userState == ToLower(SliceFrom(enforceSubject, 2))
         IN  IF userState \notin UserStates
             THEN [st EXCEPT !.err = Err("invalid user state", userState)]
             ELSE [st EXCEPT !.queryRules.userStateRules = MapSet(@, userState, enforceObject)]
    ELSE IF enforceSubject = kDefault
    THEN [st EXCEPT !.queryRules.defaultRules = enforceObject]
    ELSE [st EXCEPT !.err = Err("invalid enforce type", enforceSubject)]

RECURSIVE compileSubjects(_, _, _, _, _)
compileSubjects(c, st, enforces, ord, i) ==
    IF i > Len(ord) \/ st.err # NoErr THEN st
    ELSE compileSubjects(c, compileSubject(c, st, ord[i], enforces[ord[i]]), enforces, ord, i + 1)

\* compileQueryEnforces(cfg, enforces): [queryRules, err], over every order
\* in which the subjects can be visited
compileQueryEnforces(c, enforces) ==
    {compileSubjects(c, [queryRules |-> NewQueryRules, err |-> NoErr], enforces, ord, 1) :
        ord \in Perms(DOMAIN enforces)}

\* the errors of merging, one at a time, the documents of frags in this
\* order, stopping at the first error
RECURSIVE validateEach(_, _)
validateEach(frags, i) ==
    IF i > Len(frags) THEN {NoErr}
    ELSE LET errs == {m.err : m \in mergeUpdateOutcomes(<<frags[i]>>)}
         IN  (errs \ {NoErr}) \cup (IF NoErr \in errs THEN validateEach(frags, i + 1) ELSE {})

\* the values of map m in every order of its keys
ValueOrders(m) == {[i \in 1..Len(p) |-> m[p[i]]] : p \in Perms(DOMAIN m)}

\* validateUpdateRules(rules): the errors it can return
validateUpdateRules(qr) ==
    IF qr.isNil THEN {NoErr}
    ELSE UNION {validateEach(s \o g \o u \o <<qr.defaultRules>>, 1) :
                    s \in ValueOrders(qr.userStateRules),
                    g \in ValueOrders(qr.groupRules),
                    u \in ValueOrders(qr.userRules)}

Sections == <<"find", "count", "remove", "insert", "update.filter", "update.update">>

\* the RuleQueryType whose entry of TableRules.rules a section is stored in
\* (lines 156-172); update.update goes to TableRules.updateRules (line 176)
SectionKind(i) ==
    CASE i = 1 -> RuleQueryFind [] i = 2 -> RuleQueryCount [] i = 3 -> RuleQueryRemove
      [] i = 4 -> RuleQueryInsert [] i = 5 -> RuleQueryUpdate

SectionEnforces(te, i) ==
    CASE i = 1 -> te.Find [] i = 2 -> te.Count [] i = 3 -> te.Remove
      [] i = 4 -> te.Insert [] i = 5 -> te.Update.Filter [] i = 6 -> te.Update.Update

\* lines 152-184 for one table: the sections are compiled in the order of
\* Sections, the first error ends the compilation: [tableRules, err]
RECURSIVE compileTable(_, _, _, _)
compileTable(c, te, tr, i) ==
    IF i > Len(Sections)
    THEN {[tableRules |-> tr, err |-> e] : e \in validateUpdateRules(tr.updateRules)}
    ELSE UNION {IF q.err # NoErr
                THEN {[tableRules |-> tr, err |-> q.err]}
                ELSE compileTable(c, te,
                                  IF i = 6 THEN [tr EXCEPT !.updateRules = q.queryRules]
                                  ELSE [tr EXCEPT !.rules = MapSet(@, SectionKind(i), q.queryRules)],
                                  i + 1) :
                    q \in compileQueryEnforces(c, SectionEnforces(te, i))}

NewTableRules == [rules |-> EmptyMap, updateRules |-> NilQueryRules]

\* lines 144-149 with the groups visited in the order gord
RECURSIVE compileGroups(_, _, _, _, _)
compileGroups(c, r, gord, gi, ui) ==
    IF gi > Len(gord) THEN r
    ELSE IF ui > Len(c.Groups[gord[gi]]) THEN compileGroups(c, r, gord, gi + 1, 1)
    ELSE LET groupName == gord[gi]
             userName == c.Groups[groupName][ui]
             old == IF userName \in DOMAIN r.userGroups THEN r.userGroups[userName] ELSE <<>>
         IN  compileGroups(c,
                           [r EXCEPT !.groups = Append(@, groupName),
                                     !.userGroups = MapSet(@, userName, Append(old, groupName))],
                           gord, gi, ui + 1)

\* lines 151-187 with the tables visited in the order tord: [r, err]
RECURSIVE compileTables(_, _, _, _)
compileTables(c, r, tord, i) ==
    IF i > Len(tord) THEN {[r |-> r, isNil |-> FALSE, err |-> NoErr]}
    ELSE UNION {IF t.err # NoErr
                THEN {[r |-> r, isNil |-> FALSE, err |-> t.err]}
                ELSE compileTables(c, [r EXCEPT !.rules = MapSet(@, tord[i], t.tableRules)], tord, i + 1) :
                    t \in compileTable(c, c.Rules[tord[i]], NewTableRules, 1)}

NewRules == [groups |-> <<>>, userGroups |-> EmptyMap, rules |-> EmptyMap]

\* validator.New().Struct(*cfg) with the tags of lines 95-96: group names,
\* member lists, members and table names are required (not empty)
validateStruct(c) ==
    /\ \A g \in DOMAIN c.Groups :
          g # <<>> /\ c.Groups[g] # <<>> /\ \A i \in 1..Len(c.Groups[g]) : c.Groups[g][i] # <<>>
    /\ \A t \in DOMAIN c.Rules : t # <<>>

\* CompileRawRules(rules) for the configuration the JSON text decodes to:
\* what it can return, [r, isNil, err] (isNil: r is the nil pointer)
CompileRawRules(c) ==
    IF c.isNil THEN {[r |-> NewRules, isNil |-> TRUE, err |-> NoErr]}
    ELSE IF ~validateStruct(c)
    THEN {[r |-> NewRules, isNil |-> TRUE, err |-> Err("validation failed", <<>>)]}
    ELSE UNION {compileTables(c, compileGroups(c, NewRules, gord, 1, 1), tord, 1) :
                    gord \in Perms(DOMAIN c.Groups), tord \in Perms(DOMAIN c.Rules)}

----------------------------------------------------------------------------
(* Variable injection *)

pfxMagic == <<"@","@">>

\* InjectMagicVars(v, vars): a string leaf "@@name" becomes vars[name] when
\* the bag has the name and is passed through otherwise; maps and lists are
\* walked; anything else, the nil map included, is left as it is
RECURSIVE InjectMagicVars(_, _)
InjectMagicVars(v, mvars) ==
    CASE v.t = "str" ->
            IF HasPrefix(v.s, pfxMagic) /\ SliceFrom(v.s, 2) \in DOMAIN mvars
            THEN mvars[SliceFrom(v.s, 2)]
            ELSE v
      [] v.t = "obj" -> Obj([k \in DOMAIN v.o |-> InjectMagicVars(v.o[k], mvars)])
      [] v.t = "arr" -> Arr([i \in 1..Len(v.l) |-> InjectMagicVars(v.l[i], mvars)])
      [] OTHER -> v

----------------------------------------------------------------------------
(* Rule selection and enforcement *)

\* what a call does: it returns (out, err) or it panics
Return(out, err) == [panic |-> FALSE, out |-> out, err |-> err]

Panic == [panic |-> TRUE, out |-> Nil, err |-> Err("runtime error: invalid memory address or nil pointer dereference", <<>>)]

\* findUserRules(table, qt): nil for an unknown table or kind
findUserRules(r, table, qt) ==
    IF table \notin DOMAIN r.rules THEN NilQueryRules
    ELSE IF qt \notin DOMAIN r.rules[table].rules \/ r.rules[table].rules[qt].isNil
    THEN NilQueryRules
    ELSE r.rules[table].rules[qt]

\* the loop over the groups of the user (lines 376-387): [resultRules, err]
RECURSIVE findGroupRules(_, _, _, _)
findGroupRules(queryRules, groups, i, resultRules) ==
    IF i > Len(groups) THEN [resultRules |-> resultRules, err |-> NoErr]
    ELSE LET g == groups[i]
         IN  IF g \notin DOMAIN queryRules.groupRules
             THEN findGroupRules(queryRules, groups, i + 1, resultRules)
             ELSE IF queryRules.groupRules[g] = Nil
             THEN [resultRules |-> resultRules, err |-> Err("permission denied of be in group", g)]
             ELSE findGroupRules(queryRules, groups, i + 1,
                                 SliceAppend(resultRules, queryRules.groupRules[g]))

\* findRulesToApply with the user rule appended before the group rules
findRulesToApply_userFirst(r, queryRules, uid, userState) ==
    IF queryRules.isNil
    THEN [panic |-> TRUE, resultRules |-> NilSlice, err |-> NoErr]
    ELSE
    LET stateOk == userState \in DOMAIN queryRules.userStateRules
        stateRule == MapGet(queryRules.userStateRules, userState)
        userOk == uid \in DOMAIN queryRules.userRules
        rule == MapGet(queryRules.userRules, uid)
        rr2 == SliceAppend(SliceAppend(NilSlice, stateRule), rule)
        groups == IF uid \in DOMAIN r.userGroups THEN r.userGroups[uid] ELSE <<>>
        gr == findGroupRules(queryRules, groups, 1, rr2)
    IN  IF stateOk /\ stateRule = Nil
        THEN [panic |-> FALSE, resultRules |-> NilSlice,
              err |-> Err("permission denied of user state", userState)]
        ELSE IF userOk /\ rule = Nil
        THEN [panic |-> FALSE, resultRules |-> rr2,
              err |-> Err("permission denied of user rule", <<>>)]
        ELSE [panic |-> FALSE, resultRules |-> gr.resultRules, err |-> gr.err]

\* findRulesToApply(queryRules, uid, userState): [panic, resultRules, err].
\* The state rule and the user rule are appended whether or not the map has
\* them (lines 372, 398): a missing one is appended as the nil map.
findRulesToApply(r, queryRules, uid, userState) ==
    IF queryRules.isNil
    THEN [panic |-> TRUE, resultRules |-> NilSlice, err |-> NoErr]
    ELSE
    LET stateOk == userState \in DOMAIN queryRules.userStateRules
        stateRule == MapGet(queryRules.userStateRules, userState)
        rr1 == SliceAppend(NilSlice, stateRule)
        groups == IF uid \in DOMAIN r.userGroups THEN r.userGroups[uid] ELSE <<>>
        gr == findGroupRules(queryRules, groups, 1, rr1)
        userOk == uid \in DOMAIN queryRules.userRules
        rule == MapGet(queryRules.userRules, uid)
        rr3 == SliceAppend(gr.resultRules, rule)
    IN  IF stateOk /\ stateRule = Nil
        THEN [panic |-> FALSE, resultRules |-> NilSlice,
              err |-> Err("permission denied of user state", userState)]
        ELSE IF gr.err # NoErr
        THEN [panic |-> FALSE, resultRules |-> gr.resultRules, err |-> gr.err]
        ELSE IF userOk /\ rule = Nil
        THEN [panic |-> FALSE, resultRules |-> gr.resultRules,
              err |-> Err("permission denied of user rule", <<>>)]
        ELSE IF Len(rr3.elems) = 0
        THEN IF queryRules.defaultRules = Nil
             THEN [panic |-> FALSE, resultRules |-> rr3,
                   err |-> Err("permission denied of default rule", <<>>)]
             ELSE [panic |-> FALSE, resultRules |-> SliceAppend(rr3, queryRules.defaultRules),
                   err |-> NoErr]
        ELSE [panic |-> FALSE, resultRules |-> rr3, err |-> NoErr]

\* EnforceRulesOnFilter(f, table, uid, userState, vars, qt)
EnforceRulesOnFilter(r, f, table, uid, userState, mvars, qt) ==
    LET sel == findRulesToApply(r, findUserRules(r, table, RuleQueryUpdate), uid, userState)
    IN  IF sel.panic THEN Panic
        ELSE IF sel.err # NoErr THEN Return(Nil, sel.err)
        ELSE IF sel.resultRules.isNil THEN Return(f, NoErr)
        ELSE Return(Obj(kAnd :> Arr([i \in 1..Len(sel.resultRules.elems) |->
                                        InjectMagicVars(sel.resultRules.elems[i], mvars)]
                                    \o <<f>>)),
                    NoErr)

\* EnforceRulesOnUpdate with the last merge done as (rules, d): the caller
\* is applied after the rules
EnforceRulesOnUpdate_callerLast(r, d, table, uid, userState, mvars) ==
    IF table \notin DOMAIN r.rules \/ r.rules[table].updateRules.isNil
    THEN {Return(d, NoErr)}
    ELSE LET sel == findRulesToApply(r, r.rules[table].updateRules, uid, userState)
         IN  IF sel.panic THEN {Panic}
             ELSE IF sel.err # NoErr THEN {Return(Nil, sel.err)}
             ELSE UNION {IF m.err # NoErr
                         THEN {Return(Nil, m.err)}
                         ELSE {Return(u.o, u.err) :
                                  u \in mergeUpdateOutcomes(<<InjectMagicVars(m.o, mvars), d>>)} :
                            m \in mergeUpdateOutcomes(sel.resultRules.elems)}

\* EnforceRulesOnUpdate(d, table, uid, userState, vars): what it can return
EnforceRulesOnUpdate(r, d, table, uid, userState, mvars) ==
    IF table \notin DOMAIN r.rules \/ r.rules[table].updateRules.isNil
    THEN {Return(d, NoErr)}
    ELSE LET sel == findRulesToApply(r, r.rules[table].updateRules, uid, userState)
         IN  IF sel.panic THEN {Panic}
             ELSE IF sel.err # NoErr THEN {Return(Nil, sel.err)}
             ELSE UNION {IF m.err # NoErr
                         THEN {Return(Nil, m.err)}
                         ELSE {Return(u.o, u.err) :
                                  u \in mergeUpdateOutcomes(<<d, InjectMagicVars(m.o, mvars)>>)} :
                            m \in mergeUpdateOutcomes(sel.resultRules.elems)}

\* EnforceRulesOnInsert(d, table, uid, userState, vars)
EnforceRulesOnInsert(r, d, table, uid, userState, mvars) ==
    LET sel == findRulesToApply(r, findUserRules(r, table, RuleQueryInsert), uid, userState)
    IN  IF sel.panic THEN Panic
        ELSE IF sel.err # NoErr THEN Return(Nil, sel.err)
        ELSE IF sel.resultRules.isNil THEN Return(d, NoErr)
        ELSE Return(mergeInsert(<<d, InjectMagicVars(mergeInsert(sel.resultRules.elems), mvars)>>),
                    NoErr)

----------------------------------------------------------------------------
(* The maps an enforcement call writes to.  A map is owned by the compiled  *)
(* Rules ("rules": the rule fragments and what they hold), by the caller    *)
(* ("caller": the query and the variable bag) or by the call itself         *)
(* ("local": made during the call).  The owners below are those of the      *)
(* maps and slices that the assignments and appends of the code write to.   *)

\* mergeInsert with "o" being its first argument instead of a map it makes
mergeInsertWrites_intoFirst(owners) == IF Len(owners) = 0 THEN {} ELSE {owners[1]}

\* mergeInsert(q...), owners[i] the owner of q[i]: "o[k] = v" (line 452)
\* writes to o, made at line 448
mergeInsertWrites(owners) == IF Len(owners) = 0 THEN {} ELSE {"local"}

\* mergeUpdate(q...): result (line 464), o (line 521) and the operator
\* arguments (line 529) are made by the call; lines 500, 512, 530 and 533
\* write to them
mergeUpdateWrites(owners) == IF Len(owners) = 0 THEN {} ELSE {"local"}

\* InjectMagicVars(v, vars) returns the injected document and writes to
\* nothing it was given
InjectMagicVarsWrites(owner) == {"local"}

\* findRulesToApply appends to resultRules, a slice of its own (line 359)
findRulesToApplyWrites == {"local"}

EnforceRulesOnFilterWrites(r, f, table, uid, userState, mvars, qt) ==
    LET sel == findRulesToApply(r, findUserRules(r, table, RuleQueryUpdate), uid, userState)
    IN  IF sel.panic THEN {}
        ELSE IF sel.err # NoErr \/ sel.resultRules.isNil THEN findRulesToApplyWrites
        ELSE findRulesToApplyWrites \cup InjectMagicVarsWrites("rules") \cup {"local"}

EnforceRulesOnUpdateWrites(r, d, table, uid, userState, mvars) ==
    IF table \notin DOMAIN r.rules \/ r.rules[table].updateRules.isNil THEN {}
    ELSE LET sel == findRulesToApply(r, r.rules[table].updateRules, uid, userState)
         IN  IF sel.panic THEN {}
             ELSE IF sel.err # NoErr THEN findRulesToApplyWrites
             ELSE findRulesToApplyWrites
                     \cup mergeUpdateWrites([i \in 1..Len(sel.resultRules.elems) |-> "rules"])
                     \cup InjectMagicVarsWrites("local")
                     \cup mergeUpdateWrites(<<"caller", "local">>)

EnforceRulesOnInsertWrites(r, d, table, uid, userState, mvars) ==
    LET sel == findRulesToApply(r, findUserRules(r, table, RuleQueryInsert), uid, userState)
    IN  IF sel.panic THEN {}
        ELSE IF sel.err # NoErr \/ sel.resultRules.isNil THEN findRulesToApplyWrites
        ELSE findRulesToApplyWrites
                \cup mergeInsertWrites([i \in 1..Len(sel.resultRules.elems) |-> "rules"])
                \cup InjectMagicVarsWrites("local")
                \cup mergeInsertWrites(<<"caller", "local">>)

----------------------------------------------------------------------------
(* The configurations and the calls that are explored *)

\* the configuration has the groups g1 .. g<NumGroups>
NumGroups == 2

Digit(i) == CASE i = 1 -> "1" [] i = 2 -> "2" [] i = 3 -> "3" [] i = 4 -> "4" [] OTHER -> "9"

GroupName(i) == <<"g", Digit(i)>>

GroupNames == {GroupName(i) : i \in 1..NumGroups}

\* u1 is a member of every group, u2 of none
uid1 == <<"u","1">>

uid2 == <<"u","2">>

Uids == {uid1, uid2}

table1 == <<"t","1">>

\* a table the configuration has no rules for
table2 == <<"t","2">>

Tables == {table1, table2}

fRole == <<"r","o","l","e">>

fName == <<"n","a","m","e">>

vGuest == <<"g","u","e","s","t">>

magicUid == <<"@","@","u","i","d">>

nUid == <<"u","i","d">>

\* the subject keys a section can have: a state, the groups, a user, default
SubjectKeys ==
    {pfxState \o UserStateAnonymous, pfxUser \o uid1, kDefault}
        \cup {pfxGroup \o g : g \in GroupNames}

\* what tells the fragment of one subject from that of another
SubjectTag(k) == IF k = kDefault THEN <<"d">> ELSE SliceFrom(k, 2)

\* the fragment of subject k in a filter or insert section: a field every
\* fragment sets, and a field of its own that holds a magic variable
PlainFragment(k) ==
    Obj((fRole :> Str(SubjectTag(k))) @@ (SubjectTag(k) :> Str(magicUid)))

\* the fragment of subject k in the update.update section: the state and
\* default rules use $set, the groups $inc and the bare form in turn, the
\* user rule $set with a magic variable and a $comment
UpdateFragment(k) ==
    IF HasPrefix(k, pfxUser)
    THEN Obj((kSet :> Obj(fRole :> Str(magicUid))) @@ (kComment :> Str(SubjectTag(k))))
    ELSE IF k = pfxGroup \o GroupName(1)
    THEN Obj(kInc :> Obj((fRole :> Str(SubjectTag(k))) @@ (SubjectTag(k) :> Str(magicUid))))
    ELSE IF HasPrefix(k, pfxGroup)
    THEN Obj((fRole :> Str(SubjectTag(k))) @@ (SubjectTag(k) :> Str(magicUid)))
    ELSE Obj(kSet :> Obj((fRole :> Str(SubjectTag(k))) @@ (SubjectTag(k) :> Str(magicUid))))

\* a section: each subject is absent, present with null (explicit deny) or
\* present with its fragment
SectionsOf(i) ==
    UNION {{[k \in present |-> IF k \in denied THEN Nil
                              ELSE IF i = 6 THEN UpdateFragment(k) ELSE PlainFragment(k)] :
               denied \in SUBSET present} :
           present \in SUBSET SubjectKeys}

EmptyTable ==
    [Find |-> EmptyMap, Count |-> EmptyMap, Remove |-> EmptyMap, Insert |-> EmptyMap,
     Update |-> [Filter |-> EmptyMap, Update |-> EmptyMap]]

WithSection(te, i, sec) ==
    CASE i = 1 -> [te EXCEPT !.Find = sec] [] i = 2 -> [te EXCEPT !.Count = sec]
      [] i = 3 -> [te EXCEPT !.Remove = sec] [] i = 4 -> [te EXCEPT !.Insert = sec]
      [] i = 5 -> [te EXCEPT !.Update.Filter = sec] [] i = 6 -> [te EXCEPT !.Update.Update = sec]

\* the configurations: every group holds u1, and table1 has rules in one of
\* its six sections
ConfigsOf(i) ==
    {[isNil |-> FALSE,
      Groups |-> [g \in GroupNames |-> <<uid1>>],
      Rules |-> (table1 :> WithSection(EmptyTable, i, sec))] : sec \in SectionsOf(i)}

Configs == UNION {ConfigsOf(i) : i \in 1..Len(Sections)}

\* configurations for the compiler: subject keys of every kind, well and
\* ill formed, with at most MaxSubjects of them in a section
MaxSubjects == 2

Anonymous == <<"A","n","o","n","y","m","o","u","s">>

table3 == <<"t","3">>

GoodSubjectKeys ==
    {pfxState \o UserStateAnonymous, pfxState \o Anonymous, pfxGroup \o GroupName(1),
     pfxUser \o uid1, kDefault}

\* an empty group name, a group the configuration does not have, an empty
\* uid, a state that is not defined, a key of no kind
BadSubjectKeys ==
    {pfxGroup, pfxGroup \o <<"g","x">>, pfxUser, pfxState \o <<"r","o","o","t">>, fRole}

\* update fragments the Update Merger rejects: bare and $ keys mixed, an
\* operator with a value that is no object
MixedFragment == Obj((kSet :> Obj(fName :> Str(<<"n">>))) @@ (fRole :> Str(vGuest)))

ShapeFragment == Obj(kInc :> Str(<<"1">>))

\* what a subject k of section i holds in the configurations for the
\* compiler: its fragment, or for an update rule also null or a fragment
\* the merger rejects
CompileFragments(i, k) ==
    IF i = 6 THEN {UpdateFragment(k), Nil, MixedFragment} ELSE {PlainFragment(k)}

\* the same with null for every section, and both rejected fragments
CasedFragments(i, k) ==
    IF i = 6 THEN {UpdateFragment(k), Nil, MixedFragment, ShapeFragment}
    ELSE {PlainFragment(k), Nil}

\* the sections with the subject keys keys, each with one of its fragments
SectionsWith(i, keys, Fragments(_, _)) ==
    {sec \in [keys -> UNION {Fragments(i, k) : k \in keys}] :
        \A k \in keys : sec[k] \in Fragments(i, k)}

CompileSectionsOf(i, keyset, Fragments(_, _)) ==
    UNION {SectionsWith(i, keys, Fragments) :
              keys \in {x \in SUBSET keyset : Cardinality(x) <= MaxSubjects}}

ConfigWith(tables) == [isNil |-> FALSE, Groups |-> [g \in GroupNames |-> <<uid1>>], Rules |-> tables]

\* what the JSON text null decodes to
NullConfig == [isNil |-> TRUE, Groups |-> EmptyMap, Rules |-> EmptyMap]

\* a group with no member: refused by the validator
NoMemberConfig == [isNil |-> FALSE, Groups |-> (GroupName(1) :> <<>>), Rules |-> EmptyMap]

\* two tables, the second one with a subject key of its own
TwoTableConfigs ==
    {ConfigWith((table1 :> WithSection(EmptyTable, 4, (kDefault :> PlainFragment(kDefault))))
                @@ (table3 :> WithSection(EmptyTable, 1, (k :> PlainFragment(k))))) :
        k \in {pfxUser \o uid1, pfxUser, fRole}}

CompileConfigs ==
    UNION {{ConfigWith(table1 :> WithSection(EmptyTable, i, sec)) :
               sec \in CompileSectionsOf(i, GoodSubjectKeys \cup BadSubjectKeys, CompileFragments)} :
           i \in 1..Len(Sections)}
        \cup TwoTableConfigs \cup {NullConfig, NoMemberConfig}

\* configurations whose state keys differ in case only
CasedConfigs ==
    UNION {{ConfigWith(table1 :> WithSection(EmptyTable, i, sec)) :
               sec \in CompileSectionsOf(i, {pfxState \o UserStateAnonymous, pfxState \o Anonymous,
                                             pfxUser \o uid1}, CasedFragments)} :
           i \in 4..6}

Filters == {Obj(fName :> Str(<<"x">>)), Obj(EmptyMap)}

Inserts == {Obj((fRole :> Str(vGuest)) @@ (fName :> Str(<<"n">>))), Obj(EmptyMap)}

Updates ==
    {Obj((fRole :> Str(vGuest)) @@ (fName :> Str(<<"n">>))),
     Obj(kSet :> Obj((fRole :> Str(vGuest)) @@ (fName :> Str(<<"n">>)))),
     Obj((kMax :> Obj(fRole :> Str(<<"1">>))) @@ (kComment :> Str(<<"c">>))),
     Obj((kSet :> Obj(fName :> Str(<<"n">>))) @@ (fRole :> Str(vGuest))),
     Obj((kSet :> Obj(fName :> Str(<<"n">>))) @@ (kMul :> Obj(fName :> Str(<<"2">>)))),
     Obj(<<"$","p","u","s","h">> :> Obj(fName :> Str(<<"n">>)))}

\* the variable bag of a call of uid: with the uid, or empty
VarBags(uid) == {nUid :> Str(uid), EmptyMap}

CallStates == {UserStateAnonymous, UserStateLoggedIn}

\* the user states of the calls made on the Rules of configuration c: the
\* two above, and every state a subject key of c names, as it is written
CallStatesFor(c) ==
    CallStates \cup
        UNION {UNION {{SliceFrom(k, 2) : k \in {x \in DOMAIN SectionEnforces(c.Rules[t], i) :
                                                    HasPrefix(x, pfxState)}} :
                         i \in 1..Len(Sections)} :
               t \in DOMAIN c.Rules}

FilterKinds == {RuleQueryFind, RuleQueryCount, RuleQueryRemove, RuleQueryUpdate}

NoCall ==
    [op |-> "none", doc |-> Nil, table |-> <<>>, uid |-> <<>>, userState |-> <<>>,
     mvars |-> EmptyMap, qt |-> RuleQueryInsert]

\* no second compilation yet
NoTwin == [compiled |-> FALSE, rules |-> NewRules, ret |-> Return(Nil, NoErr)]

\* the goroutines that call the RulesManager, and the calls they make in all
NumProcs == 2

MaxCalls == 3

MgrProcs == 1..NumProcs

MgrIdleProc == [op |-> "none", pc |-> "idle", dbID |-> <<>>, rules |-> "nil", seen |-> 0, result |-> "nil"]

\* the other parts of the program at rest
MergeIdle == margs = <<>>

\* the manager as constructed: an empty sync.Map; order lists the stores in
\* the order in which they took effect
ManagerIdle ==
    mgr = [store |-> EmptyMap, order |-> <<>>, procs |-> [p \in MgrProcs |-> MgrIdleProc], calls |-> 0]

\* the goroutines that use the SessionPool, the calls they make in all, and
\* the capacity of the channel of a session (conf.MaxRPCPoolPhysicalConnection)
NumPoolProcs == 2

MaxPoolCalls == 3

PoolCap == 1

PoolProcs == 1..NumPoolProcs

\* a goroutine between calls; held is the connection it has (0: none), todo
\* the Sessions that a range over the map has yet to visit, total the sum
\* that Len has so far
PoolIdleProc ==
    [op |-> "none", pc |-> "idle", id |-> <<>>, sid |-> 0, held |-> 0, failed |-> FALSE,
     todo |-> {}, total |-> 0]

\* newSessionPool (lines 105-110): no session.  heap holds the Session
\* objects that were made, sessions maps a node id to the place of its
\* Session in heap; lock is the goroutine that holds p.Lock (0: free) and
\* readers are those that hold p.RLock; dialed counts the connections
\* dialed, closedConns are the connections on which Close was called, and
\* panicked tells that a channel operation has panicked
PoolIdle ==
    pool = [sessions |-> EmptyMap, heap |-> <<>>, lock |-> 0, readers |-> {},
            procs |-> [p \in PoolProcs |-> PoolIdleProc], calls |-> 0, dialed |-> 0,
            closedConns |-> {}, panicked |-> FALSE]

\* no handshake is going on
HandshakeIdle == hs = <<>>

----------------------------------------------------------------------------
(* The state machine: a configuration is compiled, then one enforcement     *)
(* call is made on the compiled Rules.                                     *)

InitWith(configs) ==
    /\ cfg \in configs
    /\ rules = NewRules
    /\ rulesNil = TRUE
    /\ compileErr = NoErr
    /\ pc = "start"
    /\ call = NoCall
    /\ ret = Return(Nil, NoErr)
    /\ written = {}
    /\ twin = NoTwin
    /\ MergeIdle /\ ManagerIdle /\ PoolIdle /\ HandshakeIdle

Compile ==
    /\ pc = "start"
    /\ \E c \in CompileRawRules(cfg) :
          /\ rules' = c.r
          /\ rulesNil' = c.isNil
          /\ compileErr' = c.err
          /\ pc' = IF c.err = NoErr /\ ~c.isNil THEN "ready" ELSE "failed"
    /\ UNCHANGED <<cfg, call, ret, written, twin, margs, mgr, pool, hs>>

Filter ==
    /\ pc = "ready"
    /\ \E f \in Filters, table \in Tables, uid \in Uids, userState \in CallStatesFor(cfg), qt \in FilterKinds :
          \E mvars \in VarBags(uid) :
             /\ call' = [op |-> "filter", doc |-> f, table |-> table, uid |-> uid,
                         userState |-> userState, mvars |-> mvars, qt |-> qt]
             /\ ret' = EnforceRulesOnFilter(rules, f, table, uid, userState, mvars, qt)
             /\ written' = EnforceRulesOnFilterWrites(rules, f, table, uid, userState, mvars, qt)
    /\ pc' = "returned"
    /\ UNCHANGED <<cfg, rules, rulesNil, compileErr, twin, margs, mgr, pool, hs>>

Update ==
    /\ pc = "ready"
    /\ \E d \in Updates, table \in Tables, uid \in Uids, userState \in CallStatesFor(cfg) :
          \E mvars \in VarBags(uid) :
             /\ call' = [op |-> "update", doc |-> d, table |-> table, uid |-> uid,
                         userState |-> userState, mvars |-> mvars, qt |-> RuleQueryUpdate]
             /\ ret' \in EnforceRulesOnUpdate(rules, d, table, uid, userState, mvars)
             /\ written' = EnforceRulesOnUpdateWrites(rules, d, table, uid, userState, mvars)
    /\ pc' = "returned"
    /\ UNCHANGED <<cfg, rules, rulesNil, compileErr, twin, margs, mgr, pool, hs>>

Insert ==
    /\ pc = "ready"
    /\ \E d \in Inserts, table \in Tables, uid \in Uids, userState \in CallStatesFor(cfg) :
          \E mvars \in VarBags(uid) :
             /\ call' = [op |-> "insert", doc |-> d, table |-> table, uid |-> uid,
                         userState |-> userState, mvars |-> mvars, qt |-> RuleQueryInsert]
             /\ ret' = EnforceRulesOnInsert(rules, d, table, uid, userState, mvars)
             /\ written' = EnforceRulesOnInsertWrites(rules, d, table, uid, userState, mvars)
    /\ pc' = "returned"
    /\ UNCHANGED <<cfg, rules, rulesNil, compileErr, twin, margs, mgr, pool, hs>>

\* the same configuration is compiled a second time
Recompile ==
    /\ pc = "ready"
    /\ ~twin.compiled
    /\ \E c \in CompileRawRules(cfg) :
          twin' = [twin EXCEPT !.compiled = TRUE, !.rules = c.r]
    /\ UNCHANGED <<cfg, rules, rulesNil, compileErr, pc, call, ret, written, margs, mgr, pool, hs>>

\* the call that was made on the first Rules is made on the second, with
\* the same arguments
Replay ==
    /\ pc = "returned"
    /\ twin.compiled
    /\ \E r \in (CASE call.op = "filter" ->
                         {EnforceRulesOnFilter(twin.rules, call.doc, call.table, call.uid,
                                               call.userState, call.mvars, call.qt)}
                    [] call.op = "insert" ->
                         {EnforceRulesOnInsert(twin.rules, call.doc, call.table, call.uid,
                                               call.userState, call.mvars)}
                    [] OTHER ->
                         EnforceRulesOnUpdate(twin.rules, call.doc, call.table, call.uid,
                                              call.userState, call.mvars)) :
          twin' = [twin EXCEPT !.ret = r]
    /\ pc' = "replayed"
    /\ UNCHANGED <<cfg, rules, rulesNil, compileErr, call, ret, written, margs, mgr, pool, hs>>

Init == InitWith(Configs)

Next == Compile \/ Filter \/ Update \/ Insert

Spec == Init /\ [][Next]_vars

\* the update document alone: the rules are in the update.update section
InitUpdate == InitWith(ConfigsOf(6))

NextUpdate == Compile \/ Update

SpecUpdate == InitUpdate /\ [][NextUpdate]_vars

\* the insert document alone: the rules are in the insert section
InitInsert == InitWith(ConfigsOf(4))

NextInsert == Compile \/ Insert

SpecInsert == InitInsert /\ [][NextInsert]_vars

\* two compilations of a configuration with rules in update.filter, and
\* one filter call on each
InitTwice == InitWith(ConfigsOf(5))

NextTwice == Compile \/ Recompile \/ Filter \/ Replay

SpecTwice == InitTwice /\ [][NextTwice]_vars

\* mergeUpdate on its own: it is called with a list of at most MaxFrags of
\* the fragments below
MaxFrags == 2

MergeFragments ==
    {Obj(fRole :> Str(vGuest)),
     Obj(kSet :> Obj((fRole :> Str(<<"a">>)) @@ (fName :> Str(<<"n">>)))),
     Obj(kInc :> Obj(fRole :> Str(<<"1">>))),
     Obj((kSet :> Obj(fName :> Str(<<"m">>))) @@ (kMul :> Obj(fName :> Str(<<"2">>)))),
     Obj((kMax :> Obj(fRole :> Str(<<"9">>))) @@ (kComment :> Str(<<"c">>))),
     Obj(kComment :> Obj(fName :> Str(<<"c">>))),
     Obj((kComment :> Str(<<"c">>)) @@ (fName :> Str(<<"n">>))),
     Obj(<<"$","p","u","s","h">> :> Obj(fName :> Str(<<"n">>))),
     MixedFragment, ShapeFragment, Obj(EmptyMap), Nil}

RECURSIVE ListsUpTo(_, _)
ListsUpTo(S, n) ==
    IF n = 0 THEN {<<>>}
    ELSE ListsUpTo(S, n - 1) \cup {Append(l, x) : l \in {y \in ListsUpTo(S, n - 1) : Len(y) = n - 1}, x \in S}

InitMerge ==
    /\ margs \in ListsUpTo(MergeFragments, MaxFrags)
    /\ cfg = NullConfig
    /\ rules = NewRules
    /\ rulesNil = TRUE
    /\ compileErr = NoErr
    /\ pc = "merge"
    /\ call = NoCall
    /\ ret = Return(Nil, NoErr)
    /\ written = {}
    /\ twin = NoTwin
    /\ ManagerIdle /\ PoolIdle /\ HandshakeIdle

\* o, err = mergeUpdate(margs...)
MergeUpdate ==
    /\ pc = "merge"
    /\ \E m \in mergeUpdateOutcomes(margs) : ret' = Return(m.o, m.err)
    /\ pc' = "merged"
    /\ UNCHANGED <<cfg, rules, rulesNil, compileErr, call, written, twin, margs, mgr, pool, hs>>

NextMerge == MergeUpdate

SpecMerge == InitMerge /\ [][NextMerge]_vars

----------------------------------------------------------------------------
(* RulesManager: Get and Set called by several goroutines.  A *Rules is    *)
(* modelled by its address, "nil" being the nil pointer; every Set is      *)
(* given a Rules object of its own, as CompileRawRules makes one.          *)

db1 == <<"d","b","1">>

db2 == <<"d","b","2">>

DatabaseIDs == {db1, db2}

\* the address of the Rules object made for the n-th call
RulesPtr(n) == CASE n = 1 -> "r1" [] n = 2 -> "r2" [] n = 3 -> "r3" [] n = 4 -> "r4" [] OTHER -> "r9"

\* m.rules.Store(dbID, rules)
ManagerStore_everyKey(store, dbID, r) == [d \in DatabaseIDs |-> r]

ManagerStore(store, dbID, r) == MapSet(store, dbID, r)

\* v, ok := m.rules.Load(dbID); the *Rules in v when ok && v != nil, else
\* nil (an interface that holds a nil *Rules is not nil, and gives nil)
ManagerLoad(store, dbID) == IF dbID \in DOMAIN store THEN store[dbID] ELSE "nil"

RulesIdle ==
    /\ cfg = NullConfig
    /\ rules = NewRules
    /\ rulesNil = TRUE
    /\ compileErr = NoErr
    /\ pc = "none"
    /\ call = NoCall
    /\ ret = Return(Nil, NoErr)
    /\ written = {}
    /\ twin = NoTwin

MgrUnchanged == UNCHANGED <<cfg, rules, rulesNil, compileErr, pc, call, ret, written, twin, margs, pool, hs>>

\* a goroutine calls Set(dbID, rules)
MgrCallSet(p) ==
    /\ mgr.procs[p].pc = "idle"
    /\ mgr.calls < MaxCalls
    /\ \E d \in DatabaseIDs :
          mgr' = [mgr EXCEPT !.calls = @ + 1,
                             !.procs[p] = [op |-> "set", pc |-> "called", dbID |-> d,
                                           rules |-> RulesPtr(mgr.calls + 1),
                                           seen |-> Len(mgr.order), result |-> "nil"]]
    /\ MgrUnchanged

\* line 75: the Store takes effect
MgrStore(p) ==
    /\ mgr.procs[p].op = "set" /\ mgr.procs[p].pc = "called"
    /\ mgr' = [mgr EXCEPT !.store = ManagerStore(@, mgr.procs[p].dbID, mgr.procs[p].rules),
                          !.order = Append(@, [dbID |-> mgr.procs[p].dbID, rules |-> mgr.procs[p].rules]),
                          !.procs[p].pc = "stored"]
    /\ MgrUnchanged

\* a goroutine calls Get(dbID)
MgrCallGet(p) ==
    /\ mgr.procs[p].pc = "idle"
    /\ mgr.calls < MaxCalls
    /\ \E d \in DatabaseIDs :
          mgr' = [mgr EXCEPT !.calls = @ + 1,
                             !.procs[p] = [op |-> "get", pc |-> "called", dbID |-> d, rules |-> "nil",
                                           seen |-> Len(mgr.order), result |-> "nil"]]
    /\ MgrUnchanged

\* line 66: the Load
MgrLoad(p) ==
    /\ mgr.procs[p].op = "get" /\ mgr.procs[p].pc = "called"
    /\ mgr' = [mgr EXCEPT !.procs[p].result = ManagerLoad(mgr.store, mgr.procs[p].dbID),
                          !.procs[p].pc = "loaded"]
    /\ MgrUnchanged

\* Set or Get returns to its caller; the goroutine may make another call
MgrReturn(p) ==
    /\ mgr.procs[p].pc \in {"stored", "loaded"}
    /\ mgr' = [mgr EXCEPT !.procs[p].pc = "idle"]
    /\ MgrUnchanged

InitManager == RulesIdle /\ MergeIdle /\ ManagerIdle /\ PoolIdle /\ HandshakeIdle

NextManager ==
    \E p \in MgrProcs : MgrCallSet(p) \/ MgrStore(p) \/ MgrCallGet(p) \/ MgrLoad(p) \/ MgrReturn(p)

SpecManager == InitManager /\ [][NextManager]_vars

----------------------------------------------------------------------------
(* SessionPool: connections are net.Conn values numbered from 1.  The      *)
(* steps of a call are those at which it can wait (for p.Lock, for s.Lock, *)
(* for the channel) or at which another goroutine can see its effect.      *)

node1 == <<"n","1">>

node2 == <<"n","2">>

NodeIDs == {node1, node2}

\* lines 130-134: a Session with an open, empty channel; lock is the
\* goroutine that holds s.Lock (0: free)
NewSession(id) == [target |-> id, sess |-> <<>>, closed |-> FALSE, lock |-> 0]

PoolUnchanged == UNCHANGED <<cfg, rules, rulesNil, compileErr, pc, call, ret, written, twin, margs, mgr, hs>>

\* the connections that a channel holds
ChanConns(q) == {q[i] : i \in 1..Len(q)}

\* p.Lock() can be taken: no goroutine holds p.Lock or p.RLock
PoolLockFree == pool.lock = 0 /\ pool.readers = {}

\* Session.put, lines 96-100, with no test of the capacity: the connection
\* is always sent
SessionPut_noCap(pl, sid, conn) ==
    IF pl.heap[sid].closed
    THEN [pl EXCEPT !.panicked = TRUE]
    ELSE [pl EXCEPT !.heap[sid].sess = Append(@, conn)]

\* Session.put, lines 96-100: "select { case s.sess <- conn: default:
\* conn.Close() }" sends the connection when the channel has room and closes
\* it otherwise; a send on a closed channel panics
SessionPut(pl, sid, conn) ==
    IF pl.heap[sid].closed
    THEN [pl EXCEPT !.panicked = TRUE]
    ELSE IF Len(pl.heap[sid].sess) < PoolCap
         THEN [pl EXCEPT !.heap[sid].sess = Append(@, conn)]
         ELSE [pl EXCEPT !.closedConns = @ \cup {conn}]

\* Session.Close, lines 59-62, that closes the channel and leaves the
\* connections in it open
SessionClose_noDrain(pl, sid) ==
    [pl EXCEPT !.heap[sid].closed = TRUE,
               !.panicked = @ \/ pl.heap[sid].closed]

\* Session.Close, lines 59-62: close(s.sess), which panics on a closed
\* channel, then every connection left in the channel is received and closed
SessionClose(pl, sid) ==
    [pl EXCEPT !.heap[sid].sess = <<>>,
               !.heap[sid].closed = TRUE,
               !.closedConns = @ \cup ChanConns(pl.heap[sid].sess),
               !.panicked = @ \/ pl.heap[sid].closed]

\* Remove that leaves the closed Session in the map
RemoveSession_keep(sessions, id) == sessions

\* Remove, line 164: delete(p.sessions, id)
RemoveSession(sessions, id) == [n \in (DOMAIN sessions) \ {id} |-> sessions[n]]

\* the Sessions that "for _, s := range p.sessions" visits
SessionsOfPool(pl) == {pl.sessions[n] : n \in DOMAIN pl.sessions}

\* DialToNodeWithPool(nodeID, pool, isAnonymous): an anonymous caller dials
\* by itself (lines 196-199), any other calls pool.Get(nodeID) (line 202)
PoolCallGet(p) ==
    /\ pool.procs[p].pc = "idle"
    /\ pool.calls < MaxPoolCalls
    /\ \E id \in NodeIDs, isAnonymous \in BOOLEAN :
          pool' = [pool EXCEPT !.calls = @ + 1,
                               !.procs[p] = [PoolIdleProc EXCEPT
                                                !.op = "get",
                                                !.pc = IF isAnonymous THEN "dial" ELSE "getSession",
                                                !.id = id]]
    /\ PoolUnchanged

\* getSession (lines 120-138), under p.Lock from its first to its last
\* line: the Session of the node, made and entered when there is none
PoolGetSession(p) ==
    /\ pool.procs[p].pc = "getSession"
    /\ PoolLockFree
    /\ LET id == pool.procs[p].id
           exist == id \in DOMAIN pool.sessions
       IN  pool' = [pool EXCEPT
                       !.heap = IF exist THEN @ ELSE Append(@, NewSession(id)),
                       !.sessions = IF exist THEN @ ELSE MapSet(@, id, Len(pool.heap) + 1),
                       !.procs[p].sid = IF exist THEN pool.sessions[id] ELSE Len(pool.heap) + 1,
                       !.procs[p].pc = "sessLock"]
    /\ PoolUnchanged

\* Session.Get, line 67: s.Lock()
SessGetLock(p) ==
    /\ pool.procs[p].pc = "sessLock"
    /\ pool.heap[pool.procs[p].sid].lock = 0
    /\ pool' = [pool EXCEPT !.heap[pool.procs[p].sid].lock = p, !.procs[p].pc = "recv"]
    /\ PoolUnchanged

\* Session.Get, line 70: "sess, ok := <-s.sess" takes a connection when the
\* channel holds one, gives ok = false when the channel is closed and
\* empty, and waits while the channel is open and empty
SessRecv(p) ==
    /\ pool.procs[p].pc = "recv"
    /\ LET s == pool.heap[pool.procs[p].sid]
       IN  \/ /\ s.sess # <<>>
              /\ pool' = [pool EXCEPT !.heap[pool.procs[p].sid].sess = Tail(@),
                                       !.heap[pool.procs[p].sid].lock = 0,
                                       !.procs[p].held = Head(s.sess),
                                       !.procs[p].pc = "returned"]
           \/ /\ s.sess = <<>> /\ s.closed
              /\ pool' = [pool EXCEPT !.procs[p].pc = "newSession"]
    /\ PoolUnchanged

\* Session.newSession (lines 83-91) and the deferred s.Unlock(): the dialer
\* gives a new connection or an error
SessNewSession(p) ==
    /\ pool.procs[p].pc = "newSession"
    /\ \E ok \in BOOLEAN :
          pool' = [pool EXCEPT !.dialed = IF ok THEN @ + 1 ELSE @,
                               !.heap[pool.procs[p].sid].lock = 0,
                               !.procs[p].held = IF ok THEN pool.dialed + 1 ELSE 0,
                               !.procs[p].failed = ~ok,
                               !.procs[p].pc = "returned"]
    /\ PoolUnchanged

\* cDialToNodeEx for an anonymous caller: a new connection or an error
PoolDialDirect(p) ==
    /\ pool.procs[p].pc = "dial"
    /\ \E ok \in BOOLEAN :
          pool' = [pool EXCEPT !.dialed = IF ok THEN @ + 1 ELSE @,
                               !.procs[p].held = IF ok THEN pool.dialed + 1 ELSE 0,
                               !.procs[p].failed = ~ok,
                               !.procs[p].pc = "returned"]
    /\ PoolUnchanged

\* a goroutine calls Put(id, conn) with the connection it has, or with one
\* that it has dialed outside the pool when it has none
PoolCallPut(p) ==
    /\ pool.procs[p].pc = "idle"
    /\ pool.calls < MaxPoolCalls
    /\ LET fresh == pool.procs[p].held = 0
       IN  \E id \in NodeIDs :
              pool' = [pool EXCEPT !.calls = @ + 1,
                                   !.dialed = IF fresh THEN @ + 1 ELSE @,
                                   !.procs[p] = [@ EXCEPT !.op = "put", !.pc = "putLock", !.id = id,
                                                          !.held = IF fresh THEN pool.dialed + 1 ELSE @,
                                                          !.sid = 0, !.failed = FALSE]]
    /\ PoolUnchanged

\* Put, lines 148-151: p.Lock() and the lookup; without a Session for the
\* node it returns (and unlocks) at once, the connection untouched
PoolPutLock(p) ==
    /\ pool.procs[p].pc = "putLock"
    /\ PoolLockFree
    /\ LET id == pool.procs[p].id
       IN  IF id \in DOMAIN pool.sessions
           THEN pool' = [pool EXCEPT !.lock = p, !.procs[p].sid = pool.sessions[id],
                                     !.procs[p].pc = "sessPut"]
           ELSE pool' = [pool EXCEPT !.procs[p].failed = TRUE, !.procs[p].pc = "returned"]
    /\ PoolUnchanged

\* Session.put (lines 93-102) under s.Lock, then both locks are released
SessPut(p) ==
    /\ pool.procs[p].pc = "sessPut"
    /\ pool.heap[pool.procs[p].sid].lock = 0
    /\ pool' = [SessionPut(pool, pool.procs[p].sid, pool.procs[p].held) EXCEPT
                    !.lock = 0,
                    !.procs[p].held = 0,
                    !.procs[p].pc = "returned"]
    /\ PoolUnchanged

\* a goroutine calls Remove(id)
PoolCallRemove(p) ==
    /\ pool.procs[p].pc = "idle"
    /\ pool.calls < MaxPoolCalls
    /\ \E id \in NodeIDs :
          pool' = [pool EXCEPT !.calls = @ + 1,
                               !.procs[p] = [@ EXCEPT !.op = "remove", !.pc = "removeLock", !.id = id,
                                                      !.sid = 0, !.failed = FALSE]]
    /\ PoolUnchanged

\* Remove, lines 159-162: p.Lock() and the lookup
PoolRemoveLock(p) ==
    /\ pool.procs[p].pc = "removeLock"
    /\ PoolLockFree
    /\ LET id == pool.procs[p].id
       IN  IF id \in DOMAIN pool.sessions
           THEN pool' = [pool EXCEPT !.lock = p, !.procs[p].sid = pool.sessions[id],
                                     !.procs[p].pc = "sessClose"]
           ELSE pool' = [pool EXCEPT !.procs[p].pc = "returned"]
    /\ PoolUnchanged

\* Remove, lines 163-164: sess.Close(), which waits for s.Lock, then
\* delete(p.sessions, id) and p.Unlock()
SessClose(p) ==
    /\ pool.procs[p].pc = "sessClose"
    /\ pool.heap[pool.procs[p].sid].lock = 0
    /\ pool' = [SessionClose(pool, pool.procs[p].sid) EXCEPT
                    !.sessions = RemoveSession(@, pool.procs[p].id),
                    !.lock = 0,
                    !.procs[p].pc = "returned"]
    /\ PoolUnchanged

\* a goroutine calls Close()
PoolCallClose(p) ==
    /\ pool.procs[p].pc = "idle"
    /\ pool.calls < MaxPoolCalls
    /\ pool' = [pool EXCEPT !.calls = @ + 1,
                            !.procs[p] = [@ EXCEPT !.op = "close", !.pc = "closeLock", !.id = <<>>,
                                                   !.sid = 0, !.failed = FALSE]]
    /\ PoolUnchanged

\* Close, lines 171-173: p.Lock() and the first Session of the range over
\* the map, which Go visits in any order; with no Session the map is
\* replaced (line 176) and the lock released at once
PoolCloseLock(p) ==
    /\ pool.procs[p].pc = "closeLock"
    /\ PoolLockFree
    /\ LET todo == SessionsOfPool(pool)
       IN  IF todo = {}
           THEN pool' = [pool EXCEPT !.sessions = EmptyMap, !.procs[p].pc = "returned"]
           ELSE \E sid \in todo :
                   pool' = [pool EXCEPT !.lock = p, !.procs[p].todo = todo,
                                        !.procs[p].sid = sid, !.procs[p].pc = "closeEach"]
    /\ PoolUnchanged

\* Close, lines 173-176: s.Close() on the Session reached, which waits for
\* s.Lock; then the next Session, or after the last one
\* "p.sessions = make(SessionMap)" and p.Unlock()
PoolCloseEach(p) ==
    /\ pool.procs[p].pc = "closeEach"
    /\ pool.heap[pool.procs[p].sid].lock = 0
    /\ LET rest == pool.procs[p].todo \ {pool.procs[p].sid}
           done == SessionClose(pool, pool.procs[p].sid)
       IN  IF rest = {}
           THEN pool' = [done EXCEPT !.sessions = EmptyMap, !.lock = 0,
                                     !.procs[p].todo = {}, !.procs[p].pc = "returned"]
           ELSE \E sid \in rest :
                   pool' = [done EXCEPT !.procs[p].todo = rest, !.procs[p].sid = sid]
    /\ PoolUnchanged

\* a goroutine calls Len()
PoolCallLen(p) ==
    /\ pool.procs[p].pc = "idle"
    /\ pool.calls < MaxPoolCalls
    /\ pool' = [pool EXCEPT !.calls = @ + 1,
                            !.procs[p] = [@ EXCEPT !.op = "len", !.pc = "lenLock", !.id = <<>>,
                                                   !.sid = 0, !.failed = FALSE, !.total = 0]]
    /\ PoolUnchanged

\* Len, lines 181-184: p.RLock(), which waits while a goroutine holds
\* p.Lock, and the first Session of the range over the map
PoolLenLock(p) ==
    /\ pool.procs[p].pc = "lenLock"
    /\ pool.lock = 0
    /\ LET todo == SessionsOfPool(pool)
       IN  IF todo = {}
           THEN pool' = [pool EXCEPT !.procs[p].pc = "returned"]
           ELSE \E sid \in todo :
                   pool' = [pool EXCEPT !.readers = @ \cup {p}, !.procs[p].todo = todo,
                                        !.procs[p].sid = sid, !.procs[p].pc = "lenEach"]
    /\ PoolUnchanged

\* Len, line 185, and Session.Len (lines 77-81): s.RLock(), which waits
\* while a goroutine holds s.Lock, and len(s.sess) added to the total; then
\* the next Session, or p.RUnlock() after the last one
PoolLenEach(p) ==
    /\ pool.procs[p].pc = "lenEach"
    /\ pool.heap[pool.procs[p].sid].lock = 0
    /\ LET rest == pool.procs[p].todo \ {pool.procs[p].sid}
           total == pool.procs[p].total + Len(pool.heap[pool.procs[p].sid].sess)
       IN  IF rest = {}
           THEN pool' = [pool EXCEPT !.readers = @ \ {p}, !.procs[p].total = total,
                                     !.procs[p].todo = {}, !.procs[p].pc = "returned"]
           ELSE \E sid \in rest :
                   pool' = [pool EXCEPT !.procs[p].total = total,
                                        !.procs[p].todo = rest, !.procs[p].sid = sid]
    /\ PoolUnchanged

\* the call has returned; the goroutine may make another
PoolReturn(p) ==
    /\ pool.procs[p].pc = "returned"
    /\ pool' = [pool EXCEPT !.procs[p].pc = "idle", !.procs[p].op = "none"]
    /\ PoolUnchanged

InitPool == RulesIdle /\ MergeIdle /\ ManagerIdle /\ PoolIdle /\ HandshakeIdle

NextPool ==
    \E p \in PoolProcs :
        \/ PoolCallGet(p) \/ PoolGetSession(p) \/ SessGetLock(p) \/ SessRecv(p)
        \/ SessNewSession(p) \/ PoolDialDirect(p)
        \/ PoolCallPut(p) \/ PoolPutLock(p) \/ SessPut(p)
        \/ PoolCallRemove(p) \/ PoolRemoveLock(p) \/ SessClose(p)
        \/ PoolReturn(p)

\* every goroutine that can take a step does take one
SpecPool == InitPool /\ [][NextPool]_vars /\ WF_vars(NextPool)

\* the pool with Close and Len as well
NextPoolAll ==
    \E p \in PoolProcs :
        \/ PoolCallGet(p) \/ PoolGetSession(p) \/ SessGetLock(p) \/ SessRecv(p)
        \/ SessNewSession(p) \/ PoolDialDirect(p)
        \/ PoolCallPut(p) \/ PoolPutLock(p) \/ SessPut(p)
        \/ PoolCallRemove(p) \/ PoolRemoveLock(p) \/ SessClose(p)
        \/ PoolCallClose(p) \/ PoolCloseLock(p) \/ PoolCloseEach(p)
        \/ PoolCallLen(p) \/ PoolLenLock(p) \/ PoolLenEach(p)
        \/ PoolReturn(p)

SpecPoolAll == InitPool /\ [][NextPoolAll]_vars

----------------------------------------------------------------------------
(* The ETLS handshake on one connection: the client writes the header, the *)
(* stream carries its bytes to the server in pieces of any size, and the    *)
(* server reads it.  Bytes are numbers, keys are told apart by what they    *)
(* were made from.                                                          *)

\* crypto/hash: the bytes of a Hash
HashSize == 32

HashBSize == 32

\* the bytes of a cpuminer.Uint256 nonce (the 32 of line 79)
NonceSize == 32

\* line 79
ETLSHeaderSize == 2 + HashBSize + NonceSize

\* etls.ETLSMagicBytes
ETLSMagicBytes == <<192, 78>>

\* make([]byte, n)
Zeros(n) == [i \in 1..n |-> 0]

Min(a, b) == IF a < b THEN a ELSE b

\* copy(dst[lo:hi], src) of Go: as many bytes as both hold
CopyTo(dst, lo, hi, src) ==
    LET n == Min(hi - lo, Len(src))
    IN  [i \in 1..Len(dst) |-> IF i > lo /\ i <= lo + n THEN src[i - lo] ELSE dst[i]]

\* the raw node id whose bytes are all b
RawID(b) == [i \in 1..HashSize |-> b]

\* kms.AnonymousRawNodeID
AnonymousRawNodeID == RawID(41)

\* the node ids that a client may have as its local node id
LocalRawNodeIDs == {RawID(1), RawID(2)}

\* the node id of the server
ServerRawNodeID == RawID(9)

\* kms.GetLocalNonce().Bytes() of the node with raw id n
LocalNonce(n) == [i \in 1..NonceSize |-> n[1] + 100]

\* no cipher (the nil Cipher of NewServerConn)
NoCipher == [kind |-> "nil", of |-> {}]

\* sharedsecret.go line 35: the key that is the same for every anonymous
\* connection
AnonymousKey == [kind |-> "anonymous", of |-> {}]

\* asymmetric.GenECDHSharedSecret(private key of a, public key of b): the
\* same key for the two ends
GenECDHSharedSecret(a, b) == [kind |-> "ecdh", of |-> {a, b}]

\* GetSharedSecretWith (sharedsecret.go lines 33-81) on the node whose
\* local id is local: resolves tells that the public key of nodeID is found
\* (lines 43-60), privOk that kms.GetLocalPrivateKey succeeds (line 63)
GetSharedSecretWith(nodeID, isAnonymous, local, cache, resolves, privOk) ==
    IF isAnonymous
    THEN [key |-> AnonymousKey, err |-> "", cache |-> cache]
    ELSE IF ~resolves
         THEN [key |-> NoCipher, err |-> "get public key failed", cache |-> cache]
         ELSE IF ~privOk
              THEN [key |-> NoCipher, err |-> "get local private key failed", cache |-> cache]
              ELSE [key |-> GenECDHSharedSecret(local, nodeID), err |-> "",
                    cache |-> Append(cache, [node |-> nodeID, key |-> GenECDHSharedSecret(local, nodeID)])]

\* hash.NewHash of the bytes b
NewHash(b) == IF Len(b) = HashSize THEN b ELSE Zeros(HashSize)

\* clientHandshake, lines 154-176: the header that the client builds
ClientHeader(isAnonymous, nodeIDBytes, nonce) ==
    LET magic == [Zeros(ETLSHeaderSize) EXCEPT ![1] = ETLSMagicBytes[1], ![2] = ETLSMagicBytes[2]]
    IN  IF isAnonymous
        THEN CopyTo(CopyTo(magic, 2, ETLSHeaderSize, AnonymousRawNodeID),
                    2 + HashSize, ETLSHeaderSize, Zeros(NonceSize))
        ELSE CopyTo(CopyTo(magic, 2, 2 + HashSize, nodeIDBytes),
                    2 + HashSize, ETLSHeaderSize, nonce)

\* NewServerConn (lines 91-95): the fields of a server connection before
\* the handshake
NewServerConn ==
    [pc |-> "start", cipher |-> NoCipher, remoteNodeID |-> Zeros(HashSize),
     isAnonymous |-> FALSE, err |-> ""]

\* serverHandshake, line 134: the node id in the header
ServerParse(headerBuf) == NewHash(SubSeq(headerBuf, 3, 2 + HashBSize))

\* serverHandshake, lines 116-150, once Read has given the first rCount
\* bytes that had arrived
serverHandshake(c, arrived, cache, resolves, privOk) ==
    LET rCount == Min(Len(arrived), ETLSHeaderSize)
        headerBuf == CopyTo(Zeros(ETLSHeaderSize), 0, ETLSHeaderSize, SubSeq(arrived, 1, rCount))
        rawNodeID == ServerParse(headerBuf)
        isAnonymous == rawNodeID = AnonymousRawNodeID
        secret == GetSharedSecretWith(rawNodeID, isAnonymous, ServerRawNodeID, cache, resolves, privOk)
    IN  IF rCount # ETLSHeaderSize
        THEN [conn |-> [c EXCEPT !.pc = "failed", !.err = "invalid ETLS header size"],
              read |-> rCount, cache |-> cache]
        ELSE IF SubSeq(headerBuf, 1, 2) # ETLSMagicBytes
             THEN [conn |-> [c EXCEPT !.pc = "failed", !.err = "bad ETLS header"],
                   read |-> rCount, cache |-> cache]
             ELSE IF secret.err # ""
                  THEN [conn |-> [c EXCEPT !.pc = "failed", !.err = "get shared secret"],
                        read |-> rCount, cache |-> cache]
                  ELSE [conn |-> [c EXCEPT !.pc = "done", !.cipher = secret.key,
                                           !.remoteNodeID = rawNodeID,
                                           !.isAnonymous = isAnonymous],
                        read |-> rCount, cache |-> secret.cache]

\* what the key store of the client gives: both values, no node id, no nonce
KmsStates == {"ok", "noNodeID", "noNonce"}

HandshakeUnchanged ==
    UNCHANGED <<cfg, rules, rulesNil, compileErr, pc, call, ret, written, twin, margs, mgr, pool>>

\* cdial, lines 248-260: the client connection before its handshake, made
\* by cDialToNodeEx with the key it shares with the server, and the server
\* connection of NewServerConn; nothing is in the stream
InitHandshake ==
    /\ RulesIdle /\ MergeIdle /\ ManagerIdle /\ PoolIdle
    /\ \E isAnonymous \in BOOLEAN, local \in LocalRawNodeIDs, kms \in KmsStates,
          resolves \in BOOLEAN, privOk \in BOOLEAN :
          hs = [client |-> [pc |-> "start", isAnonymous |-> isAnonymous, local |-> local,
                            kms |-> kms, remoteNodeID |-> ServerRawNodeID,
                            cipher |-> IF isAnonymous THEN AnonymousKey
                                       ELSE GenECDHSharedSecret(local, ServerRawNodeID),
                            err |-> ""],
                server |-> NewServerConn,
                sent |-> <<>>, wire |-> <<>>, arrived |-> <<>>,
                cache |-> <<>>, resolves |-> resolves, privOk |-> privOk]

\* clientHandshake (lines 153-188): without the local node id or nonce it
\* returns the error and writes nothing; else it writes the whole header,
\* or the Write fails
ClientHandshake ==
    /\ hs.client.pc = "start"
    /\ LET c == hs.client
       IN  IF ~c.isAnonymous /\ c.kms = "noNodeID"
           THEN hs' = [hs EXCEPT !.client.pc = "failed", !.client.err = "get local node id failed"]
           ELSE IF ~c.isAnonymous /\ c.kms = "noNonce"
                THEN hs' = [hs EXCEPT !.client.pc = "failed", !.client.err = "get local nonce failed"]
                ELSE \E writeOk \in BOOLEAN :
                        IF writeOk
                        THEN LET writeBuf == ClientHeader(c.isAnonymous, c.local, LocalNonce(c.local))
                             IN  hs' = [hs EXCEPT !.client.pc = "done", !.sent = writeBuf,
                                                  !.wire = writeBuf]
                        ELSE hs' = [hs EXCEPT !.client.pc = "failed",
                                              !.client.err = "write node id and nonce failed"]
    /\ HandshakeUnchanged

\* the stream carries the next n bytes to the server
Deliver ==
    /\ hs.wire # <<>>
    /\ \E n \in 1..Len(hs.wire) :
          hs' = [hs EXCEPT !.arrived = @ \o SubSeq(hs.wire, 1, n),
                           !.wire = SubSeq(hs.wire, n + 1, Len(hs.wire))]
    /\ HandshakeUnchanged

\* serverHandshake (lines 115-151): Read returns as soon as bytes have
\* arrived, with those that have
ServerHandshake ==
    /\ hs.server.pc = "start"
    /\ hs.arrived # <<>>
    /\ LET r == serverHandshake(hs.server, hs.arrived, hs.cache, hs.resolves, hs.privOk)
       IN  hs' = [hs EXCEPT !.server = r.conn, !.cache = r.cache,
                            !.arrived = SubSeq(@, r.read + 1, Len(@))]
    /\ HandshakeUnchanged

\* serverHandshake, lines 117-121: Read gives an error when the client has
\* given up and nothing has come
ServerReadError ==
    /\ hs.server.pc = "start"
    /\ hs.client.pc = "failed"
    /\ hs.arrived = <<>> /\ hs.wire = <<>>
    /\ hs' = [hs EXCEPT !.server.pc = "failed", !.server.err = "read node header error"]
    /\ HandshakeUnchanged

NextHandshake == ClientHandshake \/ Deliver \/ ServerHandshake \/ ServerReadError

SpecHandshake == InitHandshake /\ [][NextHandshake]_vars

----------------------------------------------------------------------------
\* the compiler alone, on configurations well and ill formed
InitCompile == InitWith(CompileConfigs)

NextCompile == Compile

SpecCompile == InitCompile /\ [][NextCompile]_vars

\* state keys in either case, and calls with the states as they are written
InitCased == InitWith(CasedConfigs)

NextCased == Compile \/ Filter \/ Update \/ Insert

SpecCased == InitCased /\ [][NextCased]_vars

----------------------------------------------------------------------------
(* What the claims speak of, read off the configuration and the call *)

Returned == pc = "returned"

\* the section of the configuration that governs the call: insert for an
\* insert, update.update for an update document, and for a filter the
\* section of its query kind (update.filter for the kind update)
GoverningSection ==
    CASE call.op = "insert" -> 4
      [] call.op = "update" -> 6
      [] call.op = "filter" /\ call.qt = RuleQueryFind -> 1
      [] call.op = "filter" /\ call.qt = RuleQueryCount -> 2
      [] call.op = "filter" /\ call.qt = RuleQueryRemove -> 3
      [] OTHER -> 5

Governing ==
    IF call.table \in DOMAIN cfg.Rules
    THEN SectionEnforces(cfg.Rules[call.table], GoverningSection)
    ELSE EmptyMap

\* the subject keys of the principal in the order of the tiers: its state,
\* its groups in the order of userGroups[uid], its uid
PrincipalGroups == IF call.uid \in DOMAIN rules.userGroups THEN rules.userGroups[call.uid] ELSE <<>>

TierKeys ==
    <<pfxState \o call.userState>>
        \o [i \in 1..Len(PrincipalGroups) |-> pfxGroup \o PrincipalGroups[i]]
        \o <<pfxUser \o call.uid>>

\* some tier of the principal is present with null in section sec
DeniedIn(sec) == \E i \in 1..Len(TierKeys) : TierKeys[i] \in DOMAIN sec /\ sec[TierKeys[i]] = Nil

\* the fragments section sec has for the tiers of the principal, in order
TierFragments(sec) ==
    LET Has(k) == k \in DOMAIN sec /\ sec[k] # Nil
        keys == SelectSeq(TierKeys, Has)
    IN  [i \in 1..Len(keys) |-> sec[keys[i]]]

IsDeny(e) ==
    e.msg \in {"permission denied of user state", "permission denied of be in group",
               "permission denied of user rule", "permission denied of default rule"}

\* ret.out is {"$and": L}
IsAnd(v) == v.t = "obj" /\ DOMAIN v.o = {kAnd} /\ v.o[kAnd].t = "arr" /\ Len(v.o[kAnd].l) >= 1

AndList(v) == v.o[kAnd].l

\* the elements of L before the last
Clauses(v) == SubSeq(AndList(v), 1, Len(AndList(v)) - 1)

Range(q) == {q[i] : i \in 1..Len(q)}

\* every fragment (not null) of every section of the table of the call
TableFragments ==
    IF call.table \in DOMAIN cfg.Rules
    THEN UNION {{SectionEnforces(cfg.Rules[call.table], i)[k] :
                    k \in DOMAIN SectionEnforces(cfg.Rules[call.table], i)} :
                i \in 1..Len(Sections)} \ {Nil}
    ELSE {}

\* the selection the rules of section sec give the principal when no tier
\* denies: the fragments of its tiers, or else the default rule, or nothing
ExpectedSelection(sec) ==
    IF TierFragments(sec) # <<>> THEN TierFragments(sec)
    ELSE IF kDefault \in DOMAIN sec /\ sec[kDefault] # Nil THEN <<sec[kDefault]>>
    ELSE <<>>

\* the returned filter is a $and with an injected rule fragment in it
BuiltFromFragments ==
    /\ IsAnd(ret.out)
    /\ \E i \in 1..Len(Clauses(ret.out)) :
          Clauses(ret.out)[i] \in {InjectMagicVars(x, call.mvars) : x \in TableFragments}

\* the (operator, field, argument) entries of an update document; a bare
\* field counts as $set, $comment has no entries
Entries(doc) ==
    IF doc.t # "obj" THEN {}
    ELSE UNION {IF ~HasPrefix(k, kDollar) THEN {<<kSet, k, doc.o[k]>>}
                ELSE IF k = kComment \/ doc.o[k].t # "obj" THEN {}
                ELSE {<<k, f, doc.o[k].o[f]>> : f \in DOMAIN doc.o[k].o} :
                k \in DOMAIN doc.o}

FieldsOf(doc) == {e[2] : e \in Entries(doc)}

\* an update document the Update Merger accepts: bare-form, or dollar-form
\* with the six operators (each with an object) and $comment
WellFormedUpdate(doc) ==
    \/ \A k \in DOMAIN doc.o : ~HasPrefix(k, kDollar)
    \/ \A k \in DOMAIN doc.o :
          \/ k = kComment
          \/ k \in {kCurrentDate, kInc, kMax, kMin, kMul, kSet} /\ doc.o[k].t = "obj"

\* the index of the last fragment of frs that has key / field x
LastWith(frs, Has(_, _), x) ==
    CHOOSE i \in 1..Len(frs) : Has(frs[i], x) /\ \A j \in (i + 1)..Len(frs) : ~Has(frs[j], x)

HasField(doc, f) == f \in FieldsOf(doc)

HasKey(doc, k) == k \in DOMAIN doc.o

\* the call is one for which the tiers of the principal select fragments
\* of the governing section (and none of them denies)
FragmentsSelected ==
    /\ Returned
    /\ call.table \in DOMAIN cfg.Rules
    /\ ~DeniedIn(Governing)
    /\ TierFragments(Governing) # <<>>

----------------------------------------------------------------------------
(* Claims *)

\* C1: EnforceRulesOnFilter called with kind k takes its fragments from the
\* rules configured for the table under k (update.filter for k = update):
\* every clause of the returned filter is an injected fragment of the
\* section of k, the fragments that section has for the principal are all
\* among the clauses, a deny comes from a null of that section only, and a
\* rule of another kind contributes nothing.
C1_FilterSelectsByKind ==
    (Returned /\ call.op = "filter" /\ ~ret.panic) =>
        /\ ret.err # NoErr => \E k \in DOMAIN Governing : Governing[k] = Nil
        /\ ret.err = NoErr =>
              LET clauses == IF IsAnd(ret.out) THEN Range(Clauses(ret.out)) \ {Nil} ELSE {}
              IN  /\ clauses \subseteq {InjectMagicVars(Governing[k], call.mvars) :
                                           k \in {x \in DOMAIN Governing : Governing[x] # Nil}}
                  /\ {InjectMagicVars(x, call.mvars) : x \in Range(TierFragments(Governing))}
                        \subseteq clauses

\* C2: EnforceRulesOnFilter and EnforceRulesOnInsert called for a table
\* that has no entry in the compiled Rules return the caller's filter or
\* insert document unchanged, with no error and without crashing.
C2_UnknownTableOpen ==
    (Returned /\ call.op \in {"filter", "insert"} /\ call.table \notin DOMAIN rules.rules) =>
        (~ret.panic /\ ret.err = NoErr /\ ret.out = call.doc)

\* C3: if the state rule, the rule of a group of userGroups[uid] or the
\* user rule of the principal is present with null, every enforcement call
\* (filter, update, insert) returns a deny error and no rewritten query.
C3_ExplicitDenyAlwaysDenies ==
    (Returned /\ DeniedIn(Governing)) => (~ret.panic /\ IsDeny(ret.err) /\ ret.out = Nil)

\* C4: the default rule is consulted exactly when the state, group and user
\* tiers contributed no fragment: then a null default fails the call with
\* the default deny, a present default is the one fragment applied and an
\* absent default leaves the query unrestricted; when an earlier tier
\* contributed, the default is neither applied nor able to deny.  (Stated
\* on insert calls, whose section the code resolves by a constant kind.)
C4_DefaultOnlyWhenNothingElse ==
    (Returned /\ call.op = "insert" /\ call.table \in DOMAIN cfg.Rules /\ ~DeniedIn(Governing)) =>
        /\ ~ret.panic
        /\ IF TierFragments(Governing) = <<>>
           THEN IF kDefault \notin DOMAIN Governing
                THEN ret.err = NoErr /\ ret.out = call.doc
                ELSE IF Governing[kDefault] = Nil
                THEN ret.err = Err("permission denied of default rule", <<>>) /\ ret.out = Nil
                ELSE /\ ret.err = NoErr
                     /\ ret.out = mergeInsert(<<call.doc,
                                                InjectMagicVars(Governing[kDefault], call.mvars)>>)
           ELSE /\ ret.err = NoErr
                /\ ret.out = mergeInsert(<<call.doc,
                                           InjectMagicVars(mergeInsert(TierFragments(Governing)),
                                                           call.mvars)>>)

\* C5: a subject with no rule contributes nothing.  With no rule for the
\* state, the groups and the uid of the principal and no default rule,
\* EnforceRulesOnFilter returns the filter f itself; and a returned $and
\* holds one element for each subject that has a rule, then f, and never a
\* placeholder for an absent rule.  (Stated on the kind update, whose
\* section is the one the code resolves.)
C5_AbsentRuleContributesNothing ==
    (Returned /\ call.op = "filter" /\ call.qt = RuleQueryUpdate /\ ~ret.panic /\ ret.err = NoErr) =>
        /\ ExpectedSelection(Governing) = <<>> => ret.out = call.doc
        /\ IsAnd(ret.out) =>
              AndList(ret.out) =
                 [i \in 1..Len(ExpectedSelection(Governing)) |->
                     InjectMagicVars(ExpectedSelection(Governing)[i], call.mvars)]
                 \o <<call.doc>>

\* C6: a filter that EnforceRulesOnFilter builds from rule fragments is
\* {"$and": L}: the last element of L is the filter f of the caller,
\* unmodified, and every element before it is a variable-injected rule
\* fragment.
C6_CallerFilterLastAfterFragments ==
    (Returned /\ call.op = "filter" /\ ~ret.panic /\ ret.err = NoErr /\ BuiltFromFragments) =>
        /\ AndList(ret.out)[Len(AndList(ret.out))] = call.doc
        /\ \A i \in 1..Len(Clauses(ret.out)) :
              Clauses(ret.out)[i] \in {InjectMagicVars(x, call.mvars) : x \in TableFragments}

\* C8: when no update rule targets the principal (no rule of its state,
\* groups or uid and no default in update.update, or a table without
\* rules), EnforceRulesOnUpdate returns the update document of the caller
\* unchanged and without error.
C8_NoUpdateRuleKeepsDocument ==
    (Returned /\ call.op = "update" /\ ~DeniedIn(Governing)
        /\ TierFragments(Governing) = <<>> /\ kDefault \notin DOMAIN Governing) =>
        (~ret.panic /\ ret.err = NoErr /\ ret.out = call.doc)

\* C7: for every update document d of the caller and every principal for
\* whom update-rule fragments are selected, the document returned by
\* EnforceRulesOnUpdate has, for each field a selected fragment names, the
\* operator and injected argument of a rule, and for every other field of
\* d the operator and argument of the caller; no field is lost or added.
\* (A document the merger rejects is answered with an error and no
\* document.)
C7_RuleOverridesCallerUpdate ==
    (FragmentsSelected /\ call.op = "update") =>
        /\ ~ret.panic
        /\ IF WellFormedUpdate(call.doc)
           THEN /\ ret.err = NoErr
                /\ LET got == Entries(ret.out)
                       ruleE == UNION {Entries(InjectMagicVars(x, call.mvars)) :
                                          x \in Range(TierFragments(Governing))}
                       ruleF == {e[2] : e \in ruleE}
                   IN  /\ \A e \in got : IF e[2] \in ruleF THEN e \in ruleE
                                          ELSE e \in Entries(call.doc)
                       /\ {e[2] : e \in got} = ruleF \cup FieldsOf(call.doc)
                       /\ \A e1, e2 \in got : e1[2] = e2[2] => e1 = e2
           ELSE ret.err # NoErr /\ ret.out = Nil

C7_Witness ==
    /\ FragmentsSelected
    /\ call.op = "update"
    /\ call.doc = Obj(kSet :> Obj((fRole :> Str(vGuest)) @@ (fName :> Str(<<"n">>))))
    /\ ret.err = NoErr
    /\ <<kInc, fRole, Str(GroupName(1))>> \in Entries(ret.out)
    /\ <<kSet, fName, Str(<<"n">>)>> \in Entries(ret.out)

\* C9: for every insert document d and principal for whom insert fragments
\* are selected, EnforceRulesOnInsert returns a document whose keys are
\* those of d and of the fragments, where a key of some selected fragment
\* has the injected value of the last selected fragment with that key and
\* every other key has the value of d.
C9_InsertMergeLastFragmentWins ==
    (FragmentsSelected /\ call.op = "insert") =>
        /\ ~ret.panic
        /\ ret.err = NoErr
        /\ ret.out.t = "obj"
        /\ LET frs == TierFragments(Governing)
               ruleK == UNION {DOMAIN frs[i].o : i \in 1..Len(frs)}
           IN  /\ DOMAIN ret.out.o = ruleK \cup DOMAIN call.doc.o
               /\ \A k \in DOMAIN ret.out.o :
                     ret.out.o[k] =
                        IF k \in ruleK
                        THEN InjectMagicVars(frs[LastWith(frs, HasKey, k)].o[k], call.mvars)
                        ELSE call.doc.o[k]

C9_Witness ==
    /\ FragmentsSelected
    /\ call.op = "insert"
    /\ Len(TierFragments(Governing)) >= 3
    /\ fName \in DOMAIN call.doc.o
    /\ call.mvars # EmptyMap
    /\ ret.out.t = "obj"
    /\ {fRole, GroupName(1)} \subseteq DOMAIN ret.out.o
    /\ ret.out.o[fRole] = Str(SubjectTag(pfxUser \o call.uid))
    /\ ret.out.o[GroupName(1)] = Str(call.uid)

\* C10: selected fragments are applied in the order state, groups (in the
\* order of userGroups[uid]), user: a field that several selected update
\* rules set has, in the document EnforceRulesOnUpdate returns, the
\* operator and value of the user rule if that sets it, and else those of
\* the last group rule in the order of userGroups[uid] that sets it.
C10_UpdateFragmentsInTierOrder ==
    (FragmentsSelected /\ call.op = "update" /\ ~ret.panic /\ ret.err = NoErr) =>
        LET frs == TierFragments(Governing)
        IN  \A f \in UNION {FieldsOf(frs[i]) : i \in 1..Len(frs)} :
               /\ \E e \in Entries(ret.out) : e[2] = f
               /\ \A e \in Entries(ret.out) :
                     e[2] = f =>
                        e \in Entries(InjectMagicVars(frs[LastWith(frs, HasField, f)], call.mvars))

C10_Witness ==
    /\ FragmentsSelected
    /\ call.op = "update"
    /\ ret.err = NoErr
    /\ pfxUser \o call.uid \notin DOMAIN Governing
    /\ pfxState \o call.userState \in DOMAIN Governing
    /\ PrincipalGroups = <<GroupName(2), GroupName(1)>>
    /\ \A i \in 1..Len(PrincipalGroups) : pfxGroup \o PrincipalGroups[i] \in DOMAIN Governing
    /\ <<kInc, fRole, Str(GroupName(1))>> \in Entries(ret.out)

Compiled == pc \in {"ready", "failed"}

\* every (table, section, subject key) of the configuration
SubjectsOf(c) ==
    UNION {UNION {{<<t, i, k>> : k \in DOMAIN SectionEnforces(c.Rules[t], i)} :
                     i \in 1..Len(Sections)} :
           t \in DOMAIN c.Rules}

\* a subject key as the configuration format defines it: default, g: with
\* the name of a group of the configuration, u: with a uid, s: with one of
\* the five states (in any case)
ValidSubject(c, k) ==
    \/ k = kDefault
    \/ HasPrefix(k, pfxGroup) /\ SliceFrom(k, 2) # <<>> /\ SliceFrom(k, 2) \in DOMAIN c.Groups
    \/ HasPrefix(k, pfxUser) /\ SliceFrom(k, 2) # <<>>
    \/ HasPrefix(k, pfxState) /\ ToLower(SliceFrom(k, 2)) \in UserStates

\* every update.update fragment of the configuration is one the Update
\* Merger accepts
UpdateFragmentsMerge(c) ==
    \A x \in SubjectsOf(c) :
        x[2] = 6 => WellFormedUpdate(SectionEnforces(c.Rules[x[1]], 6)[x[3]])

\* C11: CompileRawRules of a configuration (not null, and one the validator
\* accepts) returns an error whenever a subject key of a section of a table
\* is g: with an empty name or a name that is no group, u: with an empty
\* uid, s: with a state that is none of the five, or a key of no kind; and
\* it returns no error when every subject key is valid and every update
\* fragment merges.
C11_InvalidSubjectFailsCompile ==
    (Compiled /\ ~cfg.isNil /\ validateStruct(cfg)) =>
        /\ (\E x \in SubjectsOf(cfg) : ~ValidSubject(cfg, x[3])) => compileErr # NoErr
        /\ ((\A x \in SubjectsOf(cfg) : ValidSubject(cfg, x[3])) /\ UpdateFragmentsMerge(cfg))
              => (compileErr = NoErr /\ ~rulesNil)

C11_Witness ==
    /\ pc = "failed"
    /\ compileErr = Err("unknown group", <<"g","x">>)
    /\ \E x \in SubjectsOf(cfg) : x[3] = pfxGroup \o <<"g","x">> /\ x[2] = 3
    /\ \E x \in SubjectsOf(cfg) : ValidSubject(cfg, x[3])

\* the merger errors of merging the update fragments selected for the
\* principal (uid, userState) on table: the first mergeUpdate of
\* EnforceRulesOnUpdate (line 310)
SelectedMergeErrors(table, uid, userState) ==
    IF table \notin DOMAIN rules.rules \/ rules.rules[table].updateRules.isNil THEN {}
    ELSE LET sel == findRulesToApply(rules, rules.rules[table].updateRules, uid, userState)
         IN  IF sel.panic \/ sel.err # NoErr THEN {}
             ELSE {m.err : m \in mergeUpdateOutcomes(sel.resultRules.elems)} \ {NoErr}

\* C12: CompileRawRules returns an error whenever an update.update
\* fragment of a table (of a state, group, user or default subject) is one
\* the Update Merger rejects; and on compiled Rules, merging the update
\* fragments selected for a principal never gives a merger error.
C12_RejectedUpdateFragmentFailsCompile ==
    /\ (Compiled /\ ~cfg.isNil /\ ~UpdateFragmentsMerge(cfg)) => compileErr # NoErr
    /\ pc \in {"ready", "returned"} =>
          \A table \in Tables, uid \in Uids, userState \in CallStatesFor(cfg) :
              SelectedMergeErrors(table, uid, userState) = {}

\* C17: CompileRawRules returns exactly one of a Rules object and an error:
\* a Rules that is not nil with no error, or a nil Rules with an error, for
\* every input, the JSON text null and the configurations that fail while
\* the tables are compiled included.
C17_RulesXorError ==
    Compiled => (rulesNil <=> compileErr # NoErr)

\* the principal's state names rule k of section sec when the two are
\* equal after lowercasing
StateKeysOf(sec, userState) ==
    {k \in DOMAIN sec : HasPrefix(k, pfxState) /\ ToLower(SliceFrom(k, 2)) = ToLower(userState)}

\* C18: state names are lowercased before lookup, in the subject key when
\* the rules are compiled and in the userState of an enforcement call: a
\* rule s:X is the state rule of a principal whose userState is Y whenever
\* X and Y are equal after lowercasing.  So, on an insert call, a null
\* state rule denies the call, and the fragment of the (one) state rule is
\* merged into the document.
C18_StateNamesLowercased ==
    (Returned /\ call.op = "insert" /\ call.table \in DOMAIN cfg.Rules
        /\ Cardinality(StateKeysOf(Governing, call.userState)) = 1) =>
        LET k == CHOOSE x \in StateKeysOf(Governing, call.userState) : TRUE
        IN  /\ ~ret.panic
            /\ Governing[k] = Nil => ret.err = Err("permission denied of user state", ToLower(call.userState))
            /\ (Governing[k] # Nil /\ ret.err = NoErr) =>
                  \A f \in DOMAIN Governing[k].o : f \in DOMAIN ret.out.o

\* C15: two compilations of the same configuration give the same group
\* order in userGroups[uid] for every uid, and an enforcement call with
\* the same arguments returns the same on both Rules objects: the same
\* fragments in the same order, and the same deny error.
C15_CompileTwiceSameGroupOrder ==
    /\ twin.compiled => twin.rules.userGroups = rules.userGroups
    /\ (pc = "replayed" /\ call.op \in {"filter", "insert"}) => twin.ret = ret

Merged == pc = "merged"

MergeArgs == [i \in 1..Len(margs) |-> margs[i]]

\* C19: for every list of well-formed update fragments mergeUpdate
\* returns a document in which each field that some fragment mentions
\* stands under exactly one operator, with an operator and argument that
\* the last fragment mentioning the field gives it (a bare field counting
\* as $set), whatever operators the fragments before it used; the document
\* has no other field.
C19_MergeUpdateLastWriterWins ==
    (Merged /\ Len(margs) > 0 /\ \A i \in 1..Len(margs) : WellFormedUpdate(margs[i])) =>
        /\ ret.err = NoErr
        /\ ret.out.t = "obj"
        /\ {e[2] : e \in Entries(ret.out)} = UNION {FieldsOf(margs[i]) : i \in 1..Len(margs)}
        /\ \A e1, e2 \in Entries(ret.out) : e1[2] = e2[2] => e1 = e2
        /\ \A e \in Entries(ret.out) :
              e \in Entries(margs[LastWith(MergeArgs, HasField, e[2])])

C19_Witness ==
    /\ Merged
    /\ margs = <<Obj(kSet :> Obj((fRole :> Str(<<"a">>)) @@ (fName :> Str(<<"n">>)))),
                 Obj(kInc :> Obj(fRole :> Str(<<"1">>)))>>
    /\ Entries(ret.out) = {<<kInc, fRole, Str(<<"1">>)>>, <<kSet, fName, Str(<<"n">>)>>}

\* C20: mergeUpdate returns an error, and then no document, exactly when
\* some fragment mixes bare keys with $ keys, or has a $ key that is none
\* of the six operators and not $comment, or gives one of the six
\* operators a value that is no object; whether it fails is the same in
\* every order in which the keys of a fragment are visited; $comment, with
\* any value, is accepted and is not in the result.
C20_MergeUpdateErrors ==
    Merged =>
        /\ ret.err # NoErr <=> \E i \in 1..Len(margs) : ~WellFormedUpdate(margs[i])
        /\ ret.err # NoErr => ret.out = Nil
        /\ \A m \in mergeUpdateOutcomes(margs) : (m.err # NoErr) <=> (ret.err # NoErr)
        /\ (ret.err = NoErr /\ Len(margs) > 0) =>
              /\ ret.out.t = "obj"
              /\ DOMAIN ret.out.o \subseteq {kCurrentDate, kInc, kMax, kMin, kMul, kSet}

C20_Witness ==
    /\ Merged
    /\ margs = <<Obj((kMax :> Obj(fRole :> Str(<<"9">>))) @@ (kComment :> Str(<<"c">>))), ShapeFragment>>
    /\ ret = Return(Nil, Err("$ operator needs object argument", <<>>))

StoresFor(dbID) == {i \in 1..Len(mgr.order) : mgr.order[i].dbID = dbID}

\* C13: in every interleaving of Get and Set calls, Get(dbID) returns nil
\* when no Set for dbID has taken effect, and else the pointer passed to a
\* Set for that dbID: the one of the last Set that had taken effect when
\* Get was called, or of one that took effect since.  It never returns
\* the pointer of a Set for another dbID or a value no Set was given.
C13_GetReturnsWhatWasSet ==
    \A p \in MgrProcs :
        (mgr.procs[p].op = "get" /\ mgr.procs[p].pc = "loaded") =>
            LET dbID == mgr.procs[p].dbID
                before == {i \in StoresFor(dbID) : i <= mgr.procs[p].seen}
            IN  IF before = {}
                THEN \/ mgr.procs[p].result = "nil"
                     \/ \E i \in StoresFor(dbID) : mgr.procs[p].result = mgr.order[i].rules
                ELSE \E i \in StoresFor(dbID) :
                        /\ \A j \in before : j <= i
                        /\ mgr.procs[p].result = mgr.order[i].rules

C13_Witness ==
    \E p \in MgrProcs :
        /\ mgr.procs[p].op = "get" /\ mgr.procs[p].pc = "loaded"
        /\ mgr.procs[p].result = "r3"
        /\ mgr.order = <<[dbID |-> mgr.procs[p].dbID, rules |-> "r1"],
                         [dbID |-> mgr.procs[p].dbID, rules |-> "r3"]>>
        /\ mgr.procs[p].seen = 1

\* C14: SessionPool.Get(id) always terminates: with a connection pooled
\* for id it returns one, and with none pooled (the first Get for a node,
\* with no Put going on, included) it dials a new connection and returns
\* it or the dial error, without waiting for a connection to be put back.
C14_PoolGetTerminates ==
    \A p \in PoolProcs :
        (pool.procs[p].op = "get" /\ pool.procs[p].pc = "getSession")
            ~> (pool.procs[p].op = "get" /\ pool.procs[p].pc = "returned")

\* goroutine p holds the pool-wide lock, for writing or for reading
HoldsPoolLock(p) == pool.lock = p \/ p \in pool.readers

\* goroutine p is at an s.Lock() or s.RLock() that another goroutine's
\* s.Lock keeps it from taking
WaitsForSession(p) ==
    /\ pool.procs[p].pc \in {"sessLock", "sessPut", "sessClose", "closeEach", "lenEach"}
    /\ pool.heap[pool.procs[p].sid].lock # 0

\* C21: getSession does nothing that blocks, and the pool-wide lock is
\* never held while a goroutine waits on a session's lock or channel, so a
\* Get that waits or dials for one node never keeps calls for another node
\* (or a Put for the same node) from completing: no goroutine that holds
\* the pool-wide lock is waiting for a session's lock.
C21_PoolLockNotHeldWhileWaiting ==
    \A p \in PoolProcs : HoldsPoolLock(p) => ~WaitsForSession(p)

\* the step with which the call op of goroutine p returns
Returns(p, op) ==
    /\ pool.procs[p].op = op
    /\ pool.procs[p].pc # "returned"
    /\ pool'.procs[p].pc = "returned"

RECURSIVE SumLen(_, _)
\* Len, lines 184-186: the sum of len(s.sess) over the Sessions S
SumLen(pl, S) ==
    IF S = {} THEN 0
    ELSE LET sid == CHOOSE x \in S : TRUE
         IN  Len(pl.heap[sid].sess) + SumLen(pl, S \ {sid})

\* what Len() gives in the pool pl
PoolLen(pl) == SumLen(pl, SessionsOfPool(pl))

\* the connections that the goroutines have in hand
HeldConns(pl) == {pl.procs[p].held : p \in PoolProcs} \ {0}

\* the connections that the channels of all Sessions hold
PooledConns(pl) == UNION {ChanConns(pl.heap[i].sess) : i \in DOMAIN pl.heap}

\* C22: when Remove(id) returns the pool has no session for id and every
\* connection that was pooled for id has been closed; when Close returns
\* there is no session at all, Len() is 0 and no connection is left pooled
\* and open; and a Get never returns a connection that was closed.
C22_RemoveAndCloseEmptyThePool ==
    [][\A p \in PoolProcs :
          /\ Returns(p, "remove") =>
                LET id == pool.procs[p].id
                IN  /\ id \notin DOMAIN pool'.sessions
                    /\ id \in DOMAIN pool.sessions =>
                          /\ ChanConns(pool.heap[pool.sessions[id]].sess) \subseteq pool'.closedConns
                          /\ pool'.heap[pool.sessions[id]].sess = <<>>
          /\ Returns(p, "close") =>
                /\ pool'.sessions = EmptyMap
                /\ PoolLen(pool') = 0
                /\ PooledConns(pool') = {}
                /\ PooledConns(pool) \subseteq pool'.closedConns
          /\ Returns(p, "get") => pool'.procs[p].held \notin pool'.closedConns
      ]_vars

\* a Remove has returned after it closed a pooled connection, and the Get
\* that waited for the removed Session has returned another connection
C22_Witness ==
    \E p, q \in PoolProcs :
        /\ pool.procs[p].op = "remove" /\ pool.procs[p].pc = "returned"
        /\ pool.closedConns = {1}
        /\ pool.procs[q].op = "get" /\ pool.procs[q].pc = "returned"
        /\ pool.procs[q].held = 2
        /\ pool.sessions = EmptyMap

\* connection c is in the channel of the Session that the pool pl has for
\* the node id
PooledFor(pl, id, c) ==
    /\ id \in DOMAIN pl.sessions
    /\ c \in ChanConns(pl.heap[pl.sessions[id]].sess)

\* C23: a connection passed to Put(id, conn) is afterwards pooled for id
\* or closed, also when the pool has no session for id: Put never returns
\* leaving the connection open and out of the pool.
C23_PutPoolsOrCloses ==
    [][\A p \in PoolProcs :
          Returns(p, "put") =>
              \/ PooledFor(pool', pool.procs[p].id, pool.procs[p].held)
              \/ pool.procs[p].held \in pool'.closedConns
      ]_vars

\* no channel holds more connections than its capacity
WithinCapacity == \A sid \in DOMAIN pool.heap : Len(pool.heap[sid].sess) <= PoolCap

\* the step with which goroutine p returns from a Put on a Session whose
\* channel is full
ReturnsFromFullPut(p) ==
    /\ Returns(p, "put")
    /\ pool.procs[p].pc = "sessPut"
    /\ Len(pool.heap[pool.procs[p].sid].sess) = PoolCap

\* C24: the connections pooled for one node are never more than
\* conf.MaxRPCPoolPhysicalConnection; a Put on a full session closes the
\* connection offered and leaves the pooled ones as they were; and a pooled
\* connection is returned by at most one Get: the connection a Get returns
\* is in no channel any more and in no other goroutine's hands.
C24_PoolBoundedAndExclusive ==
    /\ []WithinCapacity
    /\ [][\A p \in PoolProcs :
             /\ ReturnsFromFullPut(p) =>
                   /\ pool.procs[p].held \in pool'.closedConns
                   /\ pool'.heap[pool.procs[p].sid].sess = pool.heap[pool.procs[p].sid].sess
             /\ (Returns(p, "get") /\ pool'.procs[p].held # 0) =>
                   /\ pool'.procs[p].held \notin PooledConns(pool')
                   /\ \A q \in PoolProcs \ {p} : pool'.procs[q].held # pool'.procs[p].held
         ]_vars

\* a Put has returned from a full Session: the connection it offered is
\* closed and the channel still holds the connection put before
C24_Witness ==
    \E p \in PoolProcs :
        /\ pool.procs[p].op = "put" /\ pool.procs[p].pc = "returned"
        /\ ~pool.procs[p].failed
        /\ Len(pool.heap[pool.procs[p].sid].sess) = PoolCap
        /\ pool.heap[pool.procs[p].sid].sess = <<1>>
        /\ pool.closedConns = {2}

\* goroutine p is about to send on, or to close, the channel of its Session
AtChannelWrite(p) == pool.procs[p].pc \in {"sessPut", "sessClose", "closeEach"}

\* C25: under every interleaving of Get, Put, Remove and Close no goroutine
\* sends on a closed session channel and no channel is closed twice, so
\* nothing panics: a Session that a goroutine can find in the pool's map
\* (the pool-wide lock being free) is not closed, and the Session that a
\* put or a Close is about to act on is not closed.
C25_NoSendOrCloseOnClosedChannel ==
    /\ ~pool.panicked
    /\ PoolLockFree =>
          \A id \in DOMAIN pool.sessions : ~pool.heap[pool.sessions[id]].closed
    /\ \A p \in PoolProcs :
          AtChannelWrite(p) => ~pool.heap[pool.procs[p].sid].closed

\* the Session of a node was closed by Remove, and a Put for that node has
\* since returned without finding it
C25_Witness ==
    \E p \in PoolProcs :
        /\ pool.procs[p].op = "put" /\ pool.procs[p].pc = "returned"
        /\ pool.procs[p].failed
        /\ \E sid \in DOMAIN pool.heap :
              pool.heap[sid].closed /\ pool.heap[sid].target = pool.procs[p].id

\* the node id in the header that the client wrote
WrittenNodeID == SubSeq(hs.sent, 3, 2 + HashSize)

\* the server can make the key it shares with the client
KeyResolvable == hs.client.isAnonymous \/ (hs.resolves /\ hs.privOk)

\* C26: with clientHandshake and serverHandshake on the two ends of one
\* reliable connection, however the stream delivers the header bytes, the
\* server's handshake succeeds and its RemoteNodeID is the node id the
\* client wrote, the anonymous id exactly when the client is anonymous, in
\* which case the server marks the connection anonymous and both ends have
\* the same key; and a server handshake that fails leaves cipher,
\* remoteNodeID and isAnonymous as they were.
C26_HandshakeAgrees ==
    /\ (hs.client.pc = "done" /\ hs.server.pc \in {"done", "failed"} /\ KeyResolvable) =>
          /\ hs.server.pc = "done"
          /\ hs.server.remoteNodeID = WrittenNodeID
          /\ (WrittenNodeID = AnonymousRawNodeID) <=> hs.client.isAnonymous
          /\ hs.client.isAnonymous =>
                (hs.server.isAnonymous /\ hs.server.cipher = hs.client.cipher)
    /\ hs.server.pc = "failed" =>
          /\ hs.server.cipher = NewServerConn.cipher
          /\ hs.server.remoteNodeID = NewServerConn.remoteNodeID
          /\ hs.server.isAnonymous = NewServerConn.isAnonymous

====
